---- MODULE Spec2Model ----
(***************************************************************************)
(* FiftyComfy: the node-graph editor and its execution-status plumbing.    *)
(*                                                                         *)
(* The repository holds several generations of the panel side by side.     *)
(* The module models each of them from its own source:                     *)
(*   - the React Flow graph store (hooks/useGraphStore.ts) and the panel   *)
(*     that drives it (unnamed/part_002, first component);                 *)
(*   - the Recoil status atoms and the LiteGraph panel that reads them     *)
(*     (templates.ts tail, FiftyComfyView.tsx first component);            *)
(*   - the two status buses of operators.ts;                               *)
(*   - the widget populator and node visibility of registerNodes.ts.       *)
(* Each part has its own specification over the shared variables.          *)
(***************************************************************************)
EXTENDS Integers, Sequences, FiniteSets, TLC

VARIABLES
    \* ---- hooks/useGraphStore.ts: React state of useGraphStore ----
    nodes,            \* useState<Node<ComfyNodeData>[]>
    edges,            \* useState<Edge[]>
    graphId,          \* useState<string>("")
    selectedNodeId,   \* useState<string | null>(null)
    isExecuting,      \* useState(false)
    nodeIdCounter,    \* module-level let nodeIdCounter
    catalog,          \* FiftyComfyView useState<NodeTypeDef[]>
    \* ---- unnamed/part_002 (React Flow panel): a run and its events ----
    requests,         \* validate_graph / execute_graph calls awaiting their answer
    bridge,           \* operator invocations on their way from the backend
    emitted,          \* node_status events the executor sent so far
    runCount,         \* runs started so far
    delivered,        \* per node id, the last node_status handled since the
                      \* statuses were last reset (history variable)
    \* ---- templates.ts atoms and FiftyComfyView.tsx (Recoil panel) ----
    lgNodes,          \* graph._nodes of the panel's LGraph
    lastNodeId,       \* graph.last_node_id
    nodeStatuses,     \* nodeStatusesAtom
    executionState,   \* executionStateAtom
    calls,            \* execute_graph calls awaiting their answer
    triggers,         \* operator invocations on their way from the backend
    triggered,        \* node_status_update invocations the backend made so far
    \* ---- FiftyComfyView.tsx (panel on the module-level singleton graph) ----
    graphCreated,     \* _graph !== null
    panelNodes,       \* _graph._nodes
    mountId,          \* which mount of the component is the current one
    isMounted,        \* the component is mounted
    running,          \* useState(false) of the current mount
    status,           \* useState("Ready") of the current mount
    executions,       \* execute_graph calls awaiting their answer, each with
                      \* the mount whose handleRun made it
    datasetInfoListenerSet,  \* let _datasetInfoListenerSet
    \* ---- operators.ts: the two status buses ----
    listeners,        \* const listeners: Record<string, Listener[]>
    statusListeners,  \* Set<StatusCallback>, in insertion order
    completionListeners,  \* Set<CompletionCallback>, in insertion order
    closures,         \* listener functions created so far
    lastEmit,         \* what the last emit did (history variable)
    \* ---- litegraph/registerNodes.ts and the canvas it serves ----
    registered,       \* let registered
    registeredNodeTypes,  \* LiteGraph.registered_node_types, in insertion order
    datasetInfo,      \* let _datasetInfo
    currentDatasetName,   \* let _currentDatasetName (FiftyComfyView.tsx)
    hiddenNodeTypes,  \* let _hiddenNodeTypes
    canvasNodes,      \* _graph._nodes, each with its widgets and properties
    \* ---- saved graphs: the library of the React Flow panel, the backend
    \* ---- store behind it, and the localStorage of the first LiteGraph panel
    savedGraphs,      \* useState savedGraphs: the ids the library lists
    backendGraphs,    \* the graphs the backend store holds, oldest first
    libraryCalls,     \* calls of the plugin client that have not settled
    workflows,        \* localStorage["fiftycomfy_workflows"], parsed
    \* ---- the handler that ran last, with what it was called on ----
    lastOp

storeVars == <<nodes, edges, graphId, selectedNodeId, isExecuting,
               nodeIdCounter, catalog>>

runVars == <<requests, bridge, emitted, runCount, delivered>>

recoilVars == <<lgNodes, lastNodeId, nodeStatuses, executionState, calls,
                triggers, triggered>>

panelVars == <<graphCreated, panelNodes, mountId, isMounted, running, status,
               executions>>

busVars == <<listeners, statusListeners, completionListeners, closures, lastEmit>>

regVars == <<registered, registeredNodeTypes, datasetInfo, currentDatasetName,
             hiddenNodeTypes, canvasNodes>>

libraryVars == <<savedGraphs, backendGraphs, libraryCalls, workflows>>

viewVars == <<datasetInfoListenerSet>>

vars == <<nodes, edges, graphId, selectedNodeId, isExecuting,
          nodeIdCounter, catalog, runVars, recoilVars, panelVars, busVars,
          regVars, libraryVars, viewVars, lastOp>>

(***************************************************************************)
(* Bounds of the model.                                                    *)
(***************************************************************************)
MaxNodes == 2       \* nodes on the canvas at one time
MaxCalls == 2       \* calls of the plugin client in flight at one time
MaxSaveTime == 1    \* Date.now() at a click on Save returns a value in 0..MaxSaveTime
MaxNodeIds == 2     \* calls of generateNodeId per session
MaxEdges == 2       \* edges on the canvas at one time
MaxTime == 0        \* Date.now() returns a value in 0..MaxTime
MaxRuns == 2        \* runs started per session
MaxEvents == 2      \* node_status events the executor sends per session
MaxLgNodes == 2     \* nodes the LiteGraph canvas holds at one time
MaxLgIds == 3       \* highest node id an LGraph hands out
MaxClosures == 3    \* listener functions created per session
MaxCanvasNodes == 1 \* nodes on the LiteGraph canvas at one time
MaxMounts == 3      \* times the singleton panel is mounted
MaxPanelNodes == 2  \* nodes the singleton graph holds at one time
MaxExecutions == 2  \* execute_graph calls awaiting their answer at one time
MaxTriggers == 2    \* node_status_update invocations per session

(***************************************************************************)
(* Values.  An optional field (TypeScript `x?: T`, undefined when absent)  *)
(* is the empty tuple when undefined and <<v>> when it holds v.            *)
(***************************************************************************)
Undefined == <<>>
Some(v) == <<v>>
Null == <<>>                     \* null: as falsy and as empty as undefined

NoGraphId == <<>>                \* the empty string graphId starts with

\* a ?? b  (nullish coalescing on optional fields)
Coalesce(a, b) == IF a = Undefined THEN b ELSE a

\* Array.prototype.filter
SeqFilter(s, Keep(_)) == SelectSeq(s, Keep)

\* Array.prototype.map
SeqMap(s, F(_)) == [i \in 1..Len(s) |-> F(s[i])]

\* { ...a, ...b }: the keys of both, b's value where both have the key
Spread(a, b) ==
    [k \in (DOMAIN a) \cup (DOMAIN b) |-> IF k \in DOMAIN b THEN b[k] ELSE a[k]]

EmptyRecord == [k \in {} |-> Undefined]

(***************************************************************************)
(* registry (litegraph/nodes/brain.ts, second half): the node catalog.     *)
(* Three entries of DEFAULT_NODE_CATALOG are kept, with the schema reduced *)
(* to each parameter's type and default.                                   *)
(***************************************************************************)
\* a JavaScript array: an object with an identity (ref) and its items; two
\* places that hold the same ref hold the same object
ArrayOf(ref, items) == [ref |-> ref, items |-> items]

DEFAULT_NODE_CATALOG ==
    << [type |-> "source/dataset", label |-> "Current Dataset",
        category |-> "source", color |-> "#3B82F6", inputs |-> <<>>, outputs |-> <<"view">>,
        paramsSchema |-> EmptyRecord],
       [type |-> "view_stage/match_tags", label |-> "Match Tags",
        category |-> "view_stage", color |-> "#10B981", inputs |-> <<"view">>, outputs |-> <<"view">>,
        paramsSchema |-> [tags |-> [type |-> "list",
                                    default |-> ArrayOf(<<"DEFAULT_NODE_CATALOG", "tags">>, <<>>)]]],
       [type |-> "view_stage/limit", label |-> "Limit",
        category |-> "view_stage", color |-> "#10B981", inputs |-> <<"view">>, outputs |-> <<"view">>,
        paramsSchema |-> [count |-> [type |-> "int", default |-> 100]]] >>

\* A catalog as the backend may return it (getNodeCatalog): the same type
\* ids with other labels and defaults.
BackendCatalog ==
    << [type |-> "source/dataset", label |-> "Dataset",
        category |-> "source", color |-> "#2563EB", inputs |-> <<>>, outputs |-> <<"view">>,
        paramsSchema |-> EmptyRecord],
       [type |-> "view_stage/match_tags", label |-> "Tags",
        category |-> "view_stage", color |-> "#059669", inputs |-> <<"view">>, outputs |-> <<"view">>,
        paramsSchema |-> [tags |-> [type |-> "list",
                                    default |-> ArrayOf(<<"getNodeCatalog", "tags">>, <<>>)]]],
       [type |-> "view_stage/limit", label |-> "Limit (backend)",
        category |-> "view_stage", color |-> "#059669", inputs |-> <<"view">>, outputs |-> <<"view">>,
        paramsSchema |-> [count |-> [type |-> "int", default |-> 10]]] >>

\* A backend catalog that no longer has the limit stage.
ReducedCatalog == SubSeq(BackendCatalog, 1, 2)

Catalogs == {DEFAULT_NODE_CATALOG, BackendCatalog, ReducedCatalog}

\* the type ids a drop on the canvas may carry (one of them in no catalog)
NodeTypeIds == {"source/dataset", "view_stage/match_tags", "view_stage/limit",
                "view_stage/unknown"}

\* catalog.find((n) => n.type === nodeType): Some(entry), Undefined when
\* no entry has the type
getNodeTypeDef(cat, nodeType) ==
    IF \E i \in 1..Len(cat) : cat[i].type = nodeType
    THEN Some(cat[CHOOSE i \in 1..Len(cat) :
                 cat[i].type = nodeType /\ \A j \in 1..(i - 1) : cat[j].type # nodeType])
    ELSE Undefined

\* const activeCatalog = catalog.length > 0 ? catalog : DEFAULT_NODE_CATALOG
activeCatalog == IF Len(catalog) > 0 THEN catalog ELSE DEFAULT_NODE_CATALOG

(***************************************************************************)
(* useGraphStore: identifiers.                                             *)
(***************************************************************************)
\* Date.now() is the wall clock: an input of each call that reads it, in no
\* order (the clock can be set back between two calls)
Times == 0..MaxTime

\* `node_${Date.now()}_${nodeIdCounter}` after the increment, read at time t
generateNodeId(t) == <<"node", t, nodeIdCounter + 1>>

\* `edge_${source}_${target}_${Date.now()}`, read at time t
generateEdgeId(source, target, t) == <<"edge", source, target, t>>

Positions == {<<16, 32>>}

HasNode(id) == \E i \in 1..Len(nodes) : nodes[i].id = id

(***************************************************************************)
(* useGraphStore: operations on the graph.                                 *)
(***************************************************************************)
\* the node addNode builds from a catalog entry
NewNode(id, typeDef, position) ==
    [id |-> id,
     type |-> typeDef.category,
     position |-> position,
     label |-> typeDef.label,
     nodeType |-> typeDef.type,
     color |-> typeDef.color,
     params |-> [k \in DOMAIN typeDef.paramsSchema |-> typeDef.paramsSchema[k].default],
     paramsSchema |-> typeDef.paramsSchema,
     inputs |-> typeDef.inputs,
     outputs |-> typeDef.outputs,
     status |-> "idle",
     progress |-> Undefined,
     statusMessage |-> Undefined,
     result |-> Undefined,
     error |-> Undefined,
     durationMs |-> Undefined]

\* what addNode signals to its caller: it returns undefined on both paths
\* and throws on neither (the unknown type is a console.warn)
addNodeError(nodeType) == Undefined

\* addNode(nodeType, position), with Date.now() = t
addNode(nodeType, position, t) ==
    LET found == getNodeTypeDef(activeCatalog, nodeType) IN
    IF found = Undefined
    THEN UNCHANGED storeVars                    \* console.warn; return
    ELSE /\ nodeIdCounter < MaxNodeIds
         /\ Len(nodes) < MaxNodes
         /\ nodeIdCounter' = nodeIdCounter + 1
         /\ nodes' = Append(nodes, NewNode(generateNodeId(t), found[1], position))
         /\ selectedNodeId' = generateNodeId(t)
         /\ UNCHANGED <<edges, graphId, isExecuting, catalog>>

\* the edge onConnect builds; a handle without id gives sourceHandle null,
\* which `|| undefined` turns into undefined
NewEdge(source, target, t) ==
    [id |-> generateEdgeId(source, target, t),
     source |-> source,
     target |-> target,
     sourceHandle |-> Undefined,
     targetHandle |-> Undefined]

\* setEdges((eds) => [...eds, newEdge])
ConnectedEdges(eds, connection, t) ==
    Append(eds, NewEdge(connection.source, connection.target, t))

\* onConnect(connection), with Date.now() = t
onConnect(connection, t) ==
    IF connection.source = Null \/ connection.target = Null
    THEN UNCHANGED storeVars
    ELSE /\ edges' = ConnectedEdges(edges, connection, t)
         /\ UNCHANGED <<nodes, graphId, selectedNodeId, isExecuting,
                        nodeIdCounter, catalog>>

\* a removal that keeps the links leaving the node: the variant that shows
\* what C1 owes to the filter on both ends
EdgesWithoutTargetOnly(eds, id) == SeqFilter(eds, LAMBDA e : e.target # id)

\* the edges removeSelectedNode keeps
EdgesWithout(eds, id) == SeqFilter(eds, LAMBDA e : e.source # id /\ e.target # id)

\* removeSelectedNode()
removeSelectedNode ==
    IF selectedNodeId = Null
    THEN UNCHANGED storeVars
    ELSE /\ nodes' = SeqFilter(nodes, LAMBDA n : n.id # selectedNodeId)
         /\ edges' = EdgesWithout(edges, selectedNodeId)
         /\ selectedNodeId' = Null
         /\ UNCHANGED <<graphId, isExecuting, nodeIdCounter, catalog>>

\* updateNodeParams(nodeId, params)
updateNodeParams(nodeId, params) ==
    /\ nodes' = SeqMap(nodes, LAMBDA n :
                   IF n.id = nodeId
                   THEN [n EXCEPT !.params = Spread(n.params, params)]
                   ELSE n)
    /\ UNCHANGED <<edges, graphId, selectedNodeId, isExecuting,
                   nodeIdCounter, catalog>>

\* an update applied to every node, whatever its id: the variant that shows
\* what C5 owes to `n.id === update.nodeId`
updateNodeStatusOfAll(nds, update) ==
    SeqMap(nds, LAMBDA n :
        [n EXCEPT !.status = update.status,
                  !.progress = update.progress,
                  !.statusMessage = update.message,
                  !.result = Coalesce(update.result, n.result),
                  !.error = update.error,
                  !.durationMs = update.durationMs])

\* an update that is applied only while a run is in flight
updateNodeStatusWhileExecuting(nds, update) ==
    IF ~isExecuting THEN nds
    ELSE SeqMap(nds, LAMBDA n :
            IF n.id = update.nodeId
            THEN [n EXCEPT !.status = update.status,
                           !.progress = update.progress,
                           !.statusMessage = update.message,
                           !.result = Coalesce(update.result, n.result),
                           !.error = update.error,
                           !.durationMs = update.durationMs]
            ELSE n)

\* updateNodeStatus(update): the nodes after it
updateNodeStatus(nds, update) ==
    SeqMap(nds, LAMBDA n :
        IF n.id = update.nodeId
        THEN [n EXCEPT !.status = update.status,
                       !.progress = update.progress,
                       !.statusMessage = update.message,
                       !.result = Coalesce(update.result, n.result),
                       !.error = update.error,
                       !.durationMs = update.durationMs]
        ELSE n)

\* a reset that clears the result payload with the rest
resetAllStatusesAndResults(nds) ==
    SeqMap(nds, LAMBDA n :
        [n EXCEPT !.status = "idle",
                  !.progress = Undefined,
                  !.statusMessage = Undefined,
                  !.result = Undefined,
                  !.error = Undefined,
                  !.durationMs = Undefined])

\* resetAllStatuses(): the nodes after it
resetAllStatuses(nds) ==
    SeqMap(nds, LAMBDA n :
        [n EXCEPT !.status = "idle",
                  !.progress = Undefined,
                  !.statusMessage = Undefined,
                  !.error = Undefined,
                  !.durationMs = Undefined])

(***************************************************************************)
(* useGraphStore: serializeGraph and loadGraph.                            *)
(***************************************************************************)
\* what serializeGraph keeps of a node
SerializedNode(n) ==
    [id |-> n.id, type |-> n.nodeType, position |-> n.position, params |-> n.params]

\* what serializeGraph keeps of an edge (`|| undefined` on both handles)
SerializedEdge(e) ==
    [id |-> e.id, source |-> e.source, target |-> e.target,
     sourceHandle |-> e.sourceHandle, targetHandle |-> e.targetHandle]

\* serializeGraph(): GraphData, with Date.now() = t
serializeGraph(t) ==
    [id |-> IF graphId # NoGraphId THEN graphId ELSE <<"graph", t>>,
     nodes |-> SeqMap(nodes, SerializedNode),
     edges |-> SeqMap(edges, SerializedEdge)]

\* a load that takes the parameters from the catalog's defaults: the variant
\* that shows what C3 owes to `params: gn.params`
LoadedNodeDefaults(gn, cat) ==
    LET found == getNodeTypeDef(cat, gn.type)
        known == found # Undefined
    IN [id |-> gn.id,
        type |-> IF known THEN found[1].category ELSE "view_stage",
        position |-> gn.position,
        label |-> IF known THEN found[1].label ELSE gn.type,
        nodeType |-> gn.type,
        color |-> IF known THEN found[1].color ELSE "#6B7280",
        params |-> IF known
                   THEN [k \in DOMAIN found[1].paramsSchema |->
                            found[1].paramsSchema[k].default]
                   ELSE gn.params,
        paramsSchema |-> IF known THEN found[1].paramsSchema ELSE EmptyRecord,
        inputs |-> IF known THEN found[1].inputs ELSE <<"view">>,
        outputs |-> IF known THEN found[1].outputs ELSE <<"view">>,
        status |-> "idle",
        progress |-> Undefined,
        statusMessage |-> Undefined,
        result |-> Undefined,
        error |-> Undefined,
        durationMs |-> Undefined]

\* the node loadGraph builds from a serialized node and the catalog
LoadedNode(gn, cat) ==
    LET found == getNodeTypeDef(cat, gn.type)
        known == found # Undefined
    IN [id |-> gn.id,
        type |-> IF known THEN found[1].category ELSE "view_stage",
        position |-> gn.position,
        label |-> IF known THEN found[1].label ELSE gn.type,
        nodeType |-> gn.type,
        color |-> IF known THEN found[1].color ELSE "#6B7280",
        params |-> gn.params,
        paramsSchema |-> IF known THEN found[1].paramsSchema ELSE EmptyRecord,
        inputs |-> IF known THEN found[1].inputs ELSE <<"view">>,
        outputs |-> IF known THEN found[1].outputs ELSE <<"view">>,
        status |-> "idle",
        progress |-> Undefined,
        statusMessage |-> Undefined,
        result |-> Undefined,
        error |-> Undefined,
        durationMs |-> Undefined]

\* the edge loadGraph builds from a serialized edge
LoadedEdge(ge) ==
    [id |-> ge.id, source |-> ge.source, target |-> ge.target,
     sourceHandle |-> ge.sourceHandle, targetHandle |-> ge.targetHandle]

LoadedNodes(graph, cat) == SeqMap(graph.nodes, LAMBDA gn : LoadedNode(gn, cat))
LoadedEdges(graph) == SeqMap(graph.edges, LoadedEdge)

\* a load that adds the snapshot to what is there: the variant that shows
\* what C14 owes to setNodes(newNodes) and setEdges(newEdges)
loadGraphMerging(graph) ==
    /\ graphId' = graph.id
    /\ nodes' = nodes \o SeqMap(graph.nodes, LAMBDA gn : LoadedNode(gn, activeCatalog))
    /\ edges' = edges \o SeqMap(graph.edges, LoadedEdge)
    /\ selectedNodeId' = Null
    /\ UNCHANGED <<isExecuting, nodeIdCounter, catalog>>

\* loadGraph(graph)
loadGraph(graph) ==
    /\ graphId' = graph.id
    /\ nodes' = LoadedNodes(graph, activeCatalog)
    /\ edges' = LoadedEdges(graph)
    /\ selectedNodeId' = Null
    /\ UNCHANGED <<isExecuting, nodeIdCounter, catalog>>

\* clearGraph()
clearGraph ==
    /\ nodes' = <<>>
    /\ edges' = <<>>
    /\ graphId' = NoGraphId
    /\ selectedNodeId' = Null
    /\ UNCHANGED <<isExecuting, nodeIdCounter, catalog>>

(***************************************************************************)
(* Snapshots: the GraphData a store may hold and hand to loadGraph.         *)
(***************************************************************************)
\* a node and an edge of a GraphData
SavedNode(id, ty, params) ==
    [id |-> id, type |-> ty, position |-> <<16, 32>>, params |-> params]

SavedEdge(source, target) ==
    [id |-> generateEdgeId(source, target, 7), source |-> source, target |-> target,
     sourceHandle |-> Undefined, targetHandle |-> Undefined]

\* a dataset node linked to a limit stage
PipelineSnapshot ==
    [id |-> <<"graph", 7>>,
     nodes |-> <<SavedNode(<<"node", 7, 1>>, "source/dataset", EmptyRecord),
                 SavedNode(<<"node", 7, 2>>, "view_stage/limit", [count |-> 5])>>,
     edges |-> <<SavedEdge(<<"node", 7, 1>>, <<"node", 7, 2>>)>>]

\* a node of a type that no catalog has
LegacySnapshot ==
    [id |-> <<"graph", 8>>,
     nodes |-> <<SavedNode(<<"node", 8, 1>>, "view_stage/legacy", [k |-> 1])>>,
     edges |-> <<>>]

\* a link whose target is not among the nodes
DanglingSnapshot ==
    [id |-> <<"graph", 9>>,
     nodes |-> <<SavedNode(<<"node", 9, 1>>, "source/dataset", EmptyRecord)>>,
     edges |-> <<SavedEdge(<<"node", 9, 1>>, <<"node", 9, 2>>)>>]

Snapshots == {PipelineSnapshot, LegacySnapshot, DanglingSnapshot}

(***************************************************************************)
(* The editing session: what the canvas, the palette, the config drawer    *)
(* and the toolbar of the React Flow panel do to the store.                *)
(***************************************************************************)
\* variables of the other parts, which an editing step leaves alone
EditFrame == UNCHANGED <<runVars, recoilVars, panelVars, busVars, regVars, libraryVars, viewVars>>

\* the handler that ran last: its name and, for a removal, the node removed
\* and the number of links that went with it
Ran(name, arg) == lastOp' = <<name, arg>>

RunInit ==
    /\ requests = <<>>
    /\ bridge = <<>>
    /\ emitted = 0
    /\ runCount = 0
    /\ delivered = EmptyRecord

RecoilInit ==
    /\ lgNodes = <<>>
    /\ lastNodeId = 0
    /\ nodeStatuses = EmptyRecord
    /\ executionState = [running |-> FALSE, lastResult |-> Null]
    /\ calls = <<>>
    /\ triggers = <<>>
    /\ triggered = 0

\* the collections of a DatasetInfo
Collections == {"fields", "label_fields", "patches_fields", "detection_fields",
                "classification_fields", "segmentation_fields", "regression_fields",
                "saved_views", "tags", "brain_runs", "evaluations", "zoo_models"}

\* what a collection holds when it holds anything
Sample(c) ==
    IF c = "fields" THEN <<"filepath", "ground_truth">>
    ELSE IF c = "saved_views" THEN <<"my view">>
    ELSE IF c = "tags" THEN <<"validation">>
    ELSE IF c = "brain_runs" THEN <<"img_sim">>
    ELSE IF c = "evaluations" THEN <<"eval">>
    ELSE IF c = "zoo_models" THEN <<"clip-vit-base32-torch">>
    ELSE <<"ground_truth">>

\* a DatasetInfo of the given name in which exactly the collections of
\* `filled` hold something
InfoWith(name, filled) ==
    [dataset_name |-> name,
     collections |-> [c \in Collections |-> IF c \in filled THEN Sample(c) ELSE <<>>],
     label_classes |-> IF "label_fields" \in filled
                       THEN [f \in {"ground_truth"} |-> <<"cat", "dog">>]
                       ELSE EmptyRecord]

\* the initial value of _datasetInfo
EmptyDatasetInfo == InfoWith("", {})

\* the dataset infos the backend may send: nothing filled, one collection
\* filled, everything but the label fields filled, everything filled; for
\* either of two datasets
DatasetInfos ==
    {InfoWith(name, filled) :
        name \in {"quickstart", "coco"},
        filled \in {{}, {"fields"}, {"label_fields"}, {"brain_runs"},
                    Collections \ {"label_fields"}, Collections}}

RegInit ==
    /\ registered = FALSE
    /\ registeredNodeTypes = <<>>
    /\ datasetInfo = EmptyDatasetInfo
    /\ currentDatasetName = ""
    /\ hiddenNodeTypes = {}
    /\ canvasNodes = <<>>

\* the events of the array bus
EventNames == {"node_status", "execution_complete", "dataset_info"}

NoEmit == [bus |-> "none", subscribed |-> <<>>, called |-> <<>>, logged |-> <<>>,
           propagated |-> FALSE]

BusInit ==
    /\ listeners = [e \in EventNames |-> Undefined]
    /\ statusListeners = <<>>
    /\ completionListeners = <<>>
    /\ closures = 0
    /\ lastEmit = NoEmit

PanelInit ==
    /\ graphCreated = FALSE
    /\ panelNodes = <<>>
    /\ mountId = 0
    /\ isMounted = FALSE
    /\ running = FALSE
    /\ status = "Ready"
    /\ executions = <<>>
    /\ datasetInfoListenerSet = FALSE

\* nothing listed, nothing in flight, nothing in localStorage; the backend
\* store holds a graph saved in an earlier session
LibraryInit ==
    /\ savedGraphs = <<>>
    /\ backendGraphs = <<PipelineSnapshot>>
    /\ libraryCalls = <<>>
    /\ workflows = EmptyRecord

StoreInit ==
    /\ nodes = <<>>
    /\ edges = <<>>
    /\ graphId = NoGraphId
    /\ selectedNodeId = Null
    /\ isExecuting = FALSE
    /\ nodeIdCounter = 0
    /\ catalog = DEFAULT_NODE_CATALOG
    /\ lastOp = <<"mount", Null>>

\* FiftyComfyView mount effect: setCatalog(backendCatalog) when it is non-empty
SetCatalog ==
    /\ EditFrame
    /\ \E c \in Catalogs :
          /\ Len(c) > 0
          /\ catalog = DEFAULT_NODE_CATALOG
          /\ c # catalog
          /\ catalog' = c
    /\ Ran("setCatalog", Null)
    /\ UNCHANGED <<nodes, edges, graphId, selectedNodeId, isExecuting,
                   nodeIdCounter>>

\* Canvas onDrop -> handleDropNode -> store.addNode
HandleDropNode ==
    /\ EditFrame
    /\ \E ty \in NodeTypeIds, p \in Positions, t \in Times :
          /\ addNode(ty, p, t)
          /\ Ran("addNode", <<getNodeTypeDef(activeCatalog, ty) # Undefined, addNodeError(ty)>>)

\* Canvas onConnect: React Flow connects a source handle to a target handle
\* of nodes on the canvas (BaseNode renders a handle when the list is non-empty)
Connect ==
    /\ EditFrame
    /\ Len(edges) < MaxEdges
    /\ \E i, j \in 1..Len(nodes), t \in Times :
          /\ Len(nodes[i].outputs) > 0
          /\ Len(nodes[j].inputs) > 0
          /\ onConnect([source |-> nodes[i].id, target |-> nodes[j].id], t)
          /\ Ran("onConnect", Null)

\* Canvas onNodeClick -> setSelectedNodeId(node.id)
NodeClick ==
    /\ EditFrame
    /\ \E i \in 1..Len(nodes) :
          /\ selectedNodeId # nodes[i].id
          /\ selectedNodeId' = nodes[i].id
    /\ Ran("setSelectedNodeId", Null)
    /\ UNCHANGED <<nodes, edges, graphId, isExecuting, nodeIdCounter, catalog>>

\* Canvas onPaneClick -> setSelectedNodeId(null)
PaneClick ==
    /\ EditFrame
    /\ selectedNodeId # Null
    /\ selectedNodeId' = Null
    /\ Ran("setSelectedNodeId", Null)
    /\ UNCHANGED <<nodes, edges, graphId, isExecuting, nodeIdCounter, catalog>>

\* the values the drawer's field of a parameter of node n can produce:
\* IntField gives a number, ListField a new array ([...items, ""],
\* items.filter, items.map) with other items than the present one
ParamValues(n, k) ==
    IF n.paramsSchema[k].type = "int"
    THEN {50, 100} \ {n.params[k]}
    ELSE IF n.paramsSchema[k].type = "list"
    THEN {ArrayOf(<<"ListField", n.id>>, items) :
             items \in {<<>>, <<"validation">>} \ {n.params[k].items}}
    ELSE {}

\* NodeConfigDrawer handleChange(paramName, value) on the selected node;
\* the drawer renders one field per key of the node's paramsSchema
HandleChange ==
    /\ EditFrame
    /\ \E i \in 1..Len(nodes) :
          /\ nodes[i].id = selectedNodeId
          /\ \E k \in DOMAIN nodes[i].paramsSchema :
                \E v \in ParamValues(nodes[i], k) :
                   /\ updateNodeParams(nodes[i].id, [x \in {k} |-> v])
                   /\ Ran("updateNodeParams", Null)

\* NodeConfigDrawer onDelete -> store.removeSelectedNode
DeleteNode ==
    /\ EditFrame
    /\ selectedNodeId # Null
    /\ removeSelectedNode
    /\ Ran("removeSelectedNode", <<selectedNodeId, Len(edges) - Len(edges')>>)

\* the graph is serialized and the snapshot loaded back
\* (handleSave, then handleLoadGraph of the saved graph)
ReloadGraph ==
    /\ EditFrame
    /\ Len(nodes) > 0
    /\ \E t \in Times : loadGraph(serializeGraph(t))
    /\ Ran("loadGraph", Null)

\* ExecutionBar Clear -> handleClear -> store.clearGraph
HandleClear ==
    /\ EditFrame
    /\ Len(nodes) > 0
    /\ clearGraph
    /\ Ran("clearGraph", Null)

EditNext ==
    \/ SetCatalog
    \/ HandleDropNode
    \/ Connect
    \/ NodeClick
    \/ PaneClick
    \/ HandleChange
    \/ DeleteNode
    \/ ReloadGraph
    \/ HandleClear

\* the state all parts start from
AllInit ==
    StoreInit /\ RunInit /\ RecoilInit /\ PanelInit /\ BusInit /\ RegInit /\ LibraryInit

EditInit == AllInit

SpecEdit == EditInit /\ [][EditNext]_vars

(***************************************************************************)
(* Loading snapshots: store.loadGraph called with a GraphData that was     *)
(* saved earlier, by this panel or by another writer of the store.         *)
(***************************************************************************)
\* store.loadGraph(graph) with a snapshot
LoadSnapshot ==
    /\ EditFrame
    /\ \E graph \in Snapshots :
          /\ loadGraph(graph)
          /\ Ran("store.loadGraph", <<graph>>)

LoadNext ==
    \/ SetCatalog
    \/ HandleDropNode
    \/ Connect
    \/ NodeClick
    \/ HandleChange
    \/ LoadSnapshot

SpecLoad == AllInit /\ [][LoadNext]_vars

(***************************************************************************)
(* The graph library of the React Flow panel: handleSave, handleLoadOpen,  *)
(* handleLoadGraph and handleDeleteGraph, each up to its await and after   *)
(* it, with the backend store answering in between.  The canvas gets its   *)
(* nodes from the library and the drawer edits their parameters.  The      *)
(* catalog does not change in this part, so the loadGraph a handler closed *)
(* over resolves against the catalog of the store.                         *)
(***************************************************************************)
\* variables of the other parts, which a step of the library leaves alone
LibraryFrame ==
    UNCHANGED <<runVars, recoilVars, panelVars, busVars, regVars, workflows, viewVars>>

\* a call of the plugin client that the backend has not answered yet
PendingCall(kind, arg) == [kind |-> kind, arg |-> arg, answer |-> Undefined]

\* what callPanel gives back: a result (null included) or a rejection
Resolved(result) == Some([rejected |-> FALSE, result |-> result])
Rejected == Some([rejected |-> TRUE, result |-> Null])

\* the ids of the graphs of a store
StoredIds(store) == {store[i].id : i \in 1..Len(store)}

\* the store after save_graph: the graph under its id, in place of an
\* older graph of that id
StoreAfterSave(store, graph) ==
    SeqFilter(store, LAMBDA g : g.id # graph.id) \o <<graph>>

\* the store after delete_graph
StoreAfterDelete(store, id) == SeqFilter(store, LAMBDA g : g.id # id)

\* the result of a call as the backend computes it from its store
BackendResult(call, store) ==
    IF call.kind = "save_graph"
    THEN Some([graph_id |-> call.arg.id, saved |-> TRUE])
    ELSE IF call.kind = "load_graphs"
    THEN Some([graphs |-> [i \in 1..Len(store) |-> store[i].id]])
    ELSE IF call.kind = "load_graph"
    THEN IF call.arg \in StoredIds(store)
         THEN Some([graph |-> Some(store[CHOOSE i \in 1..Len(store) :
                                             store[i].id = call.arg])])
         ELSE Some([graph |-> Null])
    ELSE Some([deleted |-> call.arg \in StoredIds(store)])

\* usePluginClient.loadGraphs: result?.graphs || []
loadGraphs(result) == IF result = Null THEN <<>> ELSE result[1].graphs

\* usePluginClient.loadGraph: result?.graph || null
loadGraphOf(result) == IF result = Null THEN Null ELSE result[1].graph

\* usePluginClient.deleteGraph: result?.deleted || false
deleteGraph(result) == IF result = Null THEN FALSE ELSE result[1].deleted

\* usePluginClient.saveGraph: result || { graph_id: "", saved: false }
saveGraph(result) ==
    IF result = Null THEN [graph_id |-> "", saved |-> FALSE] ELSE result[1]

\* ExecutionBar Save -> handleSave at time t, up to `await client.saveGraph`
HandleSaveAt(t) ==
    /\ LibraryFrame
    /\ Len(libraryCalls) < MaxCalls
    /\ libraryCalls' = Append(libraryCalls, PendingCall("save_graph", serializeGraph(t)))
    /\ Ran("handleSave", Null)
    /\ UNCHANGED <<storeVars, savedGraphs, backendGraphs>>

HandleSave == \E t \in Times : HandleSaveAt(t)

\* ExecutionBar Load -> handleLoadOpen, up to `await client.loadGraphs()`
HandleLoadOpen ==
    /\ LibraryFrame
    /\ Len(libraryCalls) < MaxCalls
    /\ libraryCalls' = Append(libraryCalls, PendingCall("load_graphs", Null))
    /\ Ran("handleLoadOpen", Null)
    /\ UNCHANGED <<storeVars, savedGraphs, backendGraphs>>

\* GraphLibrary onLoad of a listed entry -> handleLoadGraph, up to
\* `await client.loadGraph(graphId)`
HandleLoadGraph ==
    /\ LibraryFrame
    /\ Len(libraryCalls) < MaxCalls
    /\ \E i \in 1..Len(savedGraphs) :
          libraryCalls' = Append(libraryCalls, PendingCall("load_graph", savedGraphs[i]))
    /\ Ran("handleLoadGraph", Null)
    /\ UNCHANGED <<storeVars, savedGraphs, backendGraphs>>

\* GraphLibrary onDelete of a listed entry -> handleDeleteGraph, up to
\* `await client.deleteGraph(graphId)`
HandleDeleteGraph ==
    /\ LibraryFrame
    /\ Len(libraryCalls) < MaxCalls
    /\ \E i \in 1..Len(savedGraphs) :
          libraryCalls' = Append(libraryCalls, PendingCall("delete_graph", savedGraphs[i]))
    /\ Ran("handleDeleteGraph", Null)
    /\ UNCHANGED <<storeVars, savedGraphs, backendGraphs>>

\* the backend serves a call from its store
BackendAnswers ==
    /\ LibraryFrame
    /\ \E c \in 1..Len(libraryCalls) :
          /\ libraryCalls[c].answer = Undefined
          /\ libraryCalls' = [libraryCalls EXCEPT
                ![c].answer = Resolved(BackendResult(libraryCalls[c], backendGraphs))]
          /\ backendGraphs' =
                IF libraryCalls[c].kind = "save_graph"
                THEN StoreAfterSave(backendGraphs, libraryCalls[c].arg)
                ELSE IF libraryCalls[c].kind = "delete_graph"
                THEN StoreAfterDelete(backendGraphs, libraryCalls[c].arg)
                ELSE backendGraphs
    /\ Ran("backend", Null)
    /\ UNCHANGED <<storeVars, savedGraphs>>

\* the call fails: callPanel rejects, or gives null back (no usePanelEvent)
BackendFails ==
    /\ LibraryFrame
    /\ \E c \in 1..Len(libraryCalls), answer \in {Rejected, Resolved(Null)} :
          /\ libraryCalls[c].answer = Undefined
          /\ libraryCalls' = [libraryCalls EXCEPT ![c].answer = answer]
    /\ Ran("backend", Null)
    /\ UNCHANGED <<storeVars, savedGraphs, backendGraphs>>

\* handleLoadGraph after its await, where the call clears the canvas when
\* no graph came back: the variant that shows what C17 owes to
\* `if (graphData)`
AfterLoadGraphClearing(answer) ==
    IF ~answer.rejected /\ loadGraphOf(answer.result) # Null
    THEN loadGraph(loadGraphOf(answer.result)[1])
    ELSE clearGraph

\* handleLoadGraph after its await: store.loadGraph(graphData) when a graph
\* came back; nothing on null and in the catch
AfterLoadGraph(answer) ==
    IF ~answer.rejected /\ loadGraphOf(answer.result) # Null
    THEN loadGraph(loadGraphOf(answer.result)[1])
    ELSE UNCHANGED storeVars

\* handleLoadOpen after its await: setSavedGraphs(graphs); nothing in the catch
AfterLoadGraphs(answer) ==
    IF answer.rejected THEN savedGraphs ELSE loadGraphs(answer.result)

\* handleDeleteGraph after its await: the entry is filtered out of the list
\* whatever deleteGraph returned; nothing in the catch
AfterDeleteGraph(answer, id) ==
    IF answer.rejected THEN savedGraphs
    ELSE SeqFilter(savedGraphs, LAMBDA g : g # id)

\* whether the call failed: it rejected, or it brought back no graph, no
\* list, saved: false, deleted: false
Failed(call) ==
    \/ call.answer[1].rejected
    \/ call.kind = "save_graph" /\ ~saveGraph(call.answer[1].result).saved
    \/ call.kind = "load_graphs" /\ call.answer[1].result = Null
    \/ call.kind = "load_graph" /\ loadGraphOf(call.answer[1].result) = Null
    \/ call.kind = "delete_graph" /\ ~deleteGraph(call.answer[1].result)

\* an answered call settles: the handler goes on after its await
CallSettles ==
    /\ LibraryFrame
    /\ \E c \in 1..Len(libraryCalls) :
          LET call == libraryCalls[c] IN
          /\ call.answer # Undefined
          /\ libraryCalls' = SubSeq(libraryCalls, 1, c - 1)
                             \o SubSeq(libraryCalls, c + 1, Len(libraryCalls))
          /\ IF call.kind = "load_graph"
             THEN AfterLoadGraph(call.answer[1])
             ELSE UNCHANGED storeVars
          /\ savedGraphs' =
                IF call.kind = "load_graphs" THEN AfterLoadGraphs(call.answer[1])
                ELSE IF call.kind = "delete_graph"
                THEN AfterDeleteGraph(call.answer[1], call.arg)
                ELSE savedGraphs
          /\ Ran("settled", <<call.kind, call.arg, Failed(call), call.answer[1]>>)
    /\ UNCHANGED backendGraphs

LibraryNext ==
    \/ NodeClick
    \/ HandleChange
    \/ HandleSave
    \/ HandleLoadOpen
    \/ HandleLoadGraph
    \/ HandleDeleteGraph
    \/ BackendAnswers
    \/ BackendFails
    \/ CallSettles

SpecLibrary == AllInit /\ [][LibraryNext]_vars

\* the milliseconds in which a click on Save can fall
SaveTimes == 0..MaxSaveTime

\* Save, with a clock that moves between two clicks
HandleSaveLater == \E t \in SaveTimes : HandleSaveAt(t)

SavesNext ==
    \/ HandleSaveLater
    \/ HandleLoadOpen
    \/ HandleLoadGraph
    \/ HandleClear
    \/ BackendAnswers
    \/ CallSettles

SpecSaves == AllInit /\ [][SavesNext]_vars

(***************************************************************************)
(* A run of the React Flow panel: handleRun, the answers of the backend,   *)
(* and the node_status / execution_complete operators it triggers.         *)
(***************************************************************************)
\* variables of the other parts, which a step of a run leaves alone
RunFrame == UNCHANGED <<recoilVars, panelVars, busVars, regVars, libraryVars, viewVars>>

\* the params of a node_status_update invocation, by status
StatusParams(id, st) ==
    [node_id |-> id,
     status |-> st,
     progress |-> IF st = "running" THEN Some(50) ELSE Undefined,
     message |-> IF st = "running" THEN Some("working") ELSE Undefined,
     result |-> IF st = "complete" THEN Some("5 samples") ELSE Undefined,
     error |-> IF st = "error" THEN Some("boom") ELSE Undefined,
     duration_ms |-> IF st = "complete" THEN Some(7) ELSE Undefined]

EventStatuses == {"running", "complete", "error"}

\* NodeStatusUpdateOperator.execute: the NodeExecutionState built from params
ParamsToUpdate(params) ==
    [nodeId |-> params.node_id,
     status |-> params.status,
     progress |-> params.progress,
     message |-> params.message,
     result |-> params.result,
     error |-> params.error,
     durationMs |-> params.duration_ms]

\* handleRun's update for a validation error that names a node
ValidationUpdate(err) ==
    [nodeId |-> err.node_id[1],
     status |-> "error",
     progress |-> Undefined,
     message |-> Undefined,
     result |-> Undefined,
     error |-> Some(err.message),
     durationMs |-> Undefined]

\* the answers validate_graph can give for a graph: valid, an error on one
\* of its nodes, two errors on its nodes (on two of them or both on one), or
\* an error that names no node
Validations(graph) ==
    {[valid |-> TRUE, errors |-> <<>>]}
    \cup {[valid |-> FALSE,
           errors |-> <<[node_id |-> Some(graph.nodes[i].id), message |-> "invalid"]>>] :
             i \in 1..Len(graph.nodes)}
    \cup {[valid |-> FALSE,
           errors |-> <<[node_id |-> Some(graph.nodes[i].id), message |-> "invalid"],
                       [node_id |-> Some(graph.nodes[j].id), message |-> "no input"]>>] :
             i \in 1..Len(graph.nodes), j \in 1..Len(graph.nodes)}
    \cup {[valid |-> FALSE,
           errors |-> <<[node_id |-> Undefined, message |-> "no source"]>>]}

\* a loop that stops after the first error: the variant that shows what
\* C16 owes to the loop going over all of validation.errors
HighlightFirstError(nds, errors) ==
    IF errors = <<>> \/ Head(errors).node_id = Undefined THEN nds
    ELSE updateNodeStatus(nds, ValidationUpdate(Head(errors)))

\* the loop over validation.errors: updateNodeStatus for each that has node_id
RECURSIVE HighlightErrors(_, _)
HighlightErrors(nds, errors) ==
    IF errors = <<>> THEN nds
    ELSE HighlightErrors(
            IF Head(errors).node_id # Undefined
            THEN updateNodeStatus(nds, ValidationUpdate(Head(errors)))
            ELSE nds,
            Tail(errors))

\* ExecutionBar Run (disabled while isExecuting or with no node) -> handleRun,
\* up to its first await: client.validateGraph(graphData)
HandleRun ==
    /\ RunFrame
    /\ ~isExecuting
    /\ Len(nodes) > 0
    /\ runCount < MaxRuns
    /\ \E t \in Times :
          requests' = Append(requests, [kind |-> "validate", graph |-> serializeGraph(t)])
    /\ nodes' = resetAllStatuses(nodes)
    /\ isExecuting' = TRUE
    /\ runCount' = runCount + 1
    /\ delivered' = EmptyRecord
    /\ Ran("handleRun", Null)
    /\ UNCHANGED <<edges, graphId, selectedNodeId, nodeIdCounter, catalog, bridge,
                   emitted>>

\* handleRun after `await client.validateGraph`: highlight and stop when the
\* graph is invalid, else go on to `await client.executeGraph`
ValidateResolves ==
    /\ RunFrame
    /\ requests # <<>>
    /\ Head(requests).kind = "validate"
    /\ \E validation \in Validations(Head(requests).graph) :
          /\ IF validation.valid
             THEN /\ requests' = <<[kind |-> "execute", graph |-> Head(requests).graph]>>
                                  \o Tail(requests)
                  /\ UNCHANGED <<nodes, isExecuting>>
             ELSE /\ requests' = Tail(requests)
                  /\ nodes' = HighlightErrors(nodes, validation.errors)
                  /\ isExecuting' = FALSE
          /\ Ran("validateGraph", <<validation>>)
    /\ UNCHANGED <<edges, graphId, selectedNodeId, nodeIdCounter, catalog,
                   bridge, emitted, runCount, delivered>>

\* a catch block that leaves the flag as it finds it
ExecutingAfterCatchKept(wasExecuting) == wasExecuting

\* handleRun's catch: store.setIsExecuting(false)
ExecutingAfterCatch(wasExecuting) == FALSE

\* handleRun's catch: the awaited call rejects
RequestRejects ==
    /\ RunFrame
    /\ requests # <<>>
    /\ requests' = Tail(requests)
    /\ isExecuting' = ExecutingAfterCatch(isExecuting)
    /\ Ran("catch", Null)
    /\ UNCHANGED <<nodes, edges, graphId, selectedNodeId, nodeIdCounter, catalog,
                   bridge, emitted, runCount, delivered>>

\* the executor reports on a node of the graph it was given:
\* ctx.trigger("node_status_update", params)
ExecutorReports ==
    /\ RunFrame
    /\ requests # <<>>
    /\ Head(requests).kind = "execute"
    /\ emitted < MaxEvents
    /\ \E i \in 1..Len(Head(requests).graph.nodes), st \in EventStatuses :
          bridge' = Append(bridge,
                       [name |-> "node_status_update",
                        params |-> StatusParams(Head(requests).graph.nodes[i].id, st)])
    /\ emitted' = emitted + 1
    /\ Ran("ctx.trigger", Null)
    /\ UNCHANGED <<storeVars, requests, runCount, delivered>>

\* the executor finishes: ctx.trigger("execution_complete", summary), and
\* execute_graph returns
ExecutorCompletes ==
    /\ RunFrame
    /\ requests # <<>>
    /\ Head(requests).kind = "execute"
    /\ bridge' = Append(bridge, [name |-> "execution_complete", params |-> Null])
    /\ requests' = Tail(requests)
    /\ Ran("ctx.trigger", Null)
    /\ UNCHANGED <<storeVars, emitted, runCount, delivered>>

\* NodeStatusUpdateOperator.execute -> emitStatusUpdate -> the panel's
\* listener -> store.updateNodeStatus(update)
NodeStatusUpdate ==
    /\ RunFrame
    /\ bridge # <<>>
    /\ Head(bridge).name = "node_status_update"
    /\ LET update == ParamsToUpdate(Head(bridge).params) IN
          /\ nodes' = updateNodeStatus(nodes, update)
          /\ delivered' = [id \in DOMAIN delivered \cup {update.nodeId} |->
                              IF id = update.nodeId THEN update ELSE delivered[id]]
          /\ Ran("node_status_update", <<update.nodeId, HasNode(update.nodeId)>>)
    /\ bridge' = Tail(bridge)
    /\ UNCHANGED <<edges, graphId, selectedNodeId, isExecuting, nodeIdCounter,
                   catalog, requests, emitted, runCount>>

\* ExecutionCompleteOperator.execute -> emitExecutionComplete -> the panel's
\* listener -> store.setIsExecuting(false)
ExecutionComplete ==
    /\ RunFrame
    /\ bridge # <<>>
    /\ Head(bridge).name = "execution_complete"
    /\ isExecuting' = FALSE
    /\ bridge' = Tail(bridge)
    /\ Ran("execution_complete", Null)
    /\ UNCHANGED <<nodes, edges, graphId, selectedNodeId, nodeIdCounter, catalog,
                   requests, emitted, runCount, delivered>>

RunNext ==
    \/ HandleDropNode
    \/ NodeClick
    \/ DeleteNode
    \/ HandleRun
    \/ ValidateResolves
    \/ RequestRejects
    \/ ExecutorReports
    \/ ExecutorCompletes
    \/ NodeStatusUpdate
    \/ ExecutionComplete

SpecRun == AllInit /\ [][RunNext]_vars

\* the run under an executor that answers every request it was sent and an
\* event loop that delivers every event it was handed: the awaited promise
\* of validateGraph settles, execute_graph ends with execution_complete,
\* and a triggered operator runs its listener
SpecRunFair ==
    /\ SpecRun
    /\ WF_vars(ValidateResolves)
    /\ WF_vars(ExecutorCompletes)
    /\ WF_vars(NodeStatusUpdate)
    /\ WF_vars(ExecutionComplete)

(***************************************************************************)
(* The Recoil panel: the atoms of templates.ts, the operators that write   *)
(* them, and the LiteGraph panel of FiftyComfyView.tsx that reads them.    *)
(***************************************************************************)
\* variables of the other parts, which a step of the Recoil panel leaves alone
RecoilFrame == UNCHANGED <<storeVars, runVars, panelVars, busVars, regVars, libraryVars, viewVars>>

PayloadStatuses == {"running", "complete", "error", "skipped"}

\* the params of a node_status_update invocation (NodeStatusPayload)
StatusPayload(id, st) ==
    [node_id |-> id,
     status |-> st,
     result |-> IF st = "complete" THEN Some("5 samples") ELSE Undefined,
     error |-> IF st = "error" THEN Some("boom") ELSE Undefined]

\* graph.getNodeById(id): the index of the node in _nodes, 0 when absent
getNodeById(lg, id) ==
    IF \E i \in 1..Len(lg) : lg[i].id = id
    THEN CHOOSE i \in 1..Len(lg) : lg[i].id = id
    ELSE 0

\* the switch of the sync effect: the node after one status entry
Painted(node, update) ==
    IF update.status = "running" THEN [node EXCEPT !.boxcolor = Some("#FFA500")]
    ELSE IF update.status = "complete"
         THEN [node EXCEPT !.boxcolor = Some("#00FF00"),
                           !.result = Coalesce(update.result, node.result)]
    ELSE IF update.status = "error" THEN [node EXCEPT !.boxcolor = Some("#FF0000")]
    ELSE IF update.status = "skipped" THEN [node EXCEPT !.boxcolor = Some("#888888")]
    ELSE [node EXCEPT !.boxcolor = Null]

\* the effect on [nodeStatuses]: every entry whose node is on the graph
\* paints it (an id has one entry, so the order of the entries is no matter)
SyncStatuses(lg, statuses) ==
    [i \in 1..Len(lg) |->
        IF lg[i].id \in DOMAIN statuses
        THEN Painted(lg[i], statuses[lg[i].id])
        ELSE lg[i]]

\* the canvas adds a node: graph.add gives it the id ++last_node_id
AddLgNode ==
    /\ RecoilFrame
    /\ Len(lgNodes) < MaxLgNodes
    /\ lastNodeId < MaxLgIds
    /\ lastNodeId' = lastNodeId + 1
    /\ lgNodes' = Append(lgNodes,
                     [id |-> lastNodeId + 1, boxcolor |-> Null, result |-> Undefined])
    /\ Ran("graph.add", Null)
    /\ UNCHANGED <<nodeStatuses, executionState, calls, triggers, triggered>>

\* the canvas deletes a node: graph.remove(node)
RemoveLgNode ==
    /\ RecoilFrame
    /\ \E i \in 1..Len(lgNodes) :
          /\ lgNodes' = SeqFilter(lgNodes, LAMBDA n : n.id # lgNodes[i].id)
          /\ Ran("graph.remove", <<lgNodes[i].id>>)
    /\ UNCHANGED <<lastNodeId, nodeStatuses, executionState, calls, triggers,
                   triggered>>

\* Queue button (disabled while executionState.running) -> handleQueue, up to
\* `await client.execute_graph`; the effect on [nodeStatuses] then sees {}
HandleQueue ==
    /\ RecoilFrame
    /\ ~executionState.running
    /\ nodeStatuses' = EmptyRecord
    /\ executionState' = [running |-> TRUE, lastResult |-> Null]
    /\ calls' = Append(calls, [graph |-> [i \in 1..Len(lgNodes) |-> lgNodes[i].id]])
    /\ lgNodes' = SyncStatuses(lgNodes, EmptyRecord)
    /\ Ran("handleQueue", Null)
    /\ UNCHANGED <<lastNodeId, triggers, triggered>>

\* handleQueue's catch: execute_graph rejects
ExecuteGraphRejects ==
    /\ RecoilFrame
    /\ calls # <<>>
    /\ calls' = Tail(calls)
    /\ executionState' = [running |-> FALSE, lastResult |-> <<"error">>]
    /\ Ran("catch", Null)
    /\ UNCHANGED <<lgNodes, lastNodeId, nodeStatuses, triggers, triggered>>

\* the executor reports on a node of the graph it was given
BackendReports ==
    /\ RecoilFrame
    /\ calls # <<>>
    /\ triggered < MaxTriggers
    /\ \E i \in 1..Len(Head(calls).graph), st \in PayloadStatuses :
          triggers' = Append(triggers,
                         [name |-> "node_status_update",
                          params |-> StatusPayload(Head(calls).graph[i], st)])
    /\ triggered' = triggered + 1
    /\ Ran("ctx.trigger", Null)
    /\ UNCHANGED <<lgNodes, lastNodeId, nodeStatuses, executionState, calls>>

\* the executor finishes, and execute_graph returns
BackendCompletes ==
    /\ RecoilFrame
    /\ calls # <<>>
    /\ triggers' = Append(triggers, [name |-> "execution_complete",
                                     params |-> <<"complete">>])
    /\ calls' = Tail(calls)
    /\ Ran("ctx.trigger", Null)
    /\ UNCHANGED <<lgNodes, lastNodeId, nodeStatuses, executionState, triggered>>

\* NodeStatusUpdateOperator.execute: the atom after the update
WithStatus(statuses, params) ==
    [id \in DOMAIN statuses \cup {params.node_id} |->
        IF id = params.node_id
        THEN [node_id |-> params.node_id, status |-> params.status,
              result |-> params.result, error |-> params.error]
        ELSE statuses[id]]

\* NodeStatusUpdateOperator.execute, then the panel's effect on [nodeStatuses]
RecoilNodeStatusUpdate ==
    /\ RecoilFrame
    /\ triggers # <<>>
    /\ Head(triggers).name = "node_status_update"
    /\ LET params == Head(triggers).params IN
          /\ nodeStatuses' = WithStatus(nodeStatuses, params)
          /\ lgNodes' = SyncStatuses(lgNodes, WithStatus(nodeStatuses, params))
          /\ Ran("node_status_update",
                 <<params.node_id, getNodeById(lgNodes, params.node_id) # 0>>)
    /\ triggers' = Tail(triggers)
    /\ UNCHANGED <<lastNodeId, executionState, calls, triggered>>

\* ExecutionCompleteOperator.execute
RecoilExecutionComplete ==
    /\ RecoilFrame
    /\ triggers # <<>>
    /\ Head(triggers).name = "execution_complete"
    /\ executionState' = [running |-> FALSE, lastResult |-> Head(triggers).params]
    /\ triggers' = Tail(triggers)
    /\ Ran("execution_complete", Null)
    /\ UNCHANGED <<lgNodes, lastNodeId, nodeStatuses, calls, triggered>>

\* Clear button -> handleClear: graph.clear() empties _nodes and starts the
\* ids over
RecoilHandleClear ==
    /\ RecoilFrame
    /\ lgNodes' = <<>>
    /\ lastNodeId' = 0
    /\ nodeStatuses' = EmptyRecord
    /\ Ran("handleClear", Null)
    /\ UNCHANGED <<executionState, calls, triggers, triggered>>

\* Reset button -> handleResetColors
HandleResetColors ==
    /\ RecoilFrame
    /\ lgNodes' = [i \in 1..Len(lgNodes) |-> [lgNodes[i] EXCEPT !.boxcolor = Null]]
    /\ nodeStatuses' = EmptyRecord
    /\ Ran("handleResetColors", Null)
    /\ UNCHANGED <<lastNodeId, executionState, calls, triggers, triggered>>

RecoilNext ==
    \/ AddLgNode
    \/ RemoveLgNode
    \/ HandleQueue
    \/ ExecuteGraphRejects
    \/ BackendReports
    \/ BackendCompletes
    \/ RecoilNodeStatusUpdate
    \/ RecoilExecutionComplete
    \/ RecoilHandleClear
    \/ HandleResetColors

SpecRecoil == AllInit /\ [][RecoilNext]_vars

(***************************************************************************)
(* The panel on the singleton graph (FiftyComfyView.tsx, second            *)
(* component): _graph lives in the module and survives a remount of the    *)
(* component (panel move or resize); running and status are state of the   *)
(* component and start over with each mount.                               *)
(***************************************************************************)
\* variables of the other parts, which a step of this panel leaves alone
PanelFrame == UNCHANGED <<storeVars, runVars, recoilVars, busVars, regVars, libraryVars, viewVars>>

\* the component mounts: fresh useState values; the mount effect creates
\* _graph when there is none
PanelMount ==
    /\ PanelFrame
    /\ ~isMounted
    /\ mountId < MaxMounts
    /\ mountId' = mountId + 1
    /\ isMounted' = TRUE
    /\ running' = FALSE
    /\ status' = "Ready"
    /\ graphCreated' = TRUE
    /\ Ran("mount", Null)
    /\ UNCHANGED <<panelNodes, executions>>

\* the component unmounts (the cleanup disconnects the ResizeObserver only)
PanelUnmount ==
    /\ PanelFrame
    /\ isMounted
    /\ isMounted' = FALSE
    /\ Ran("unmount", Null)
    /\ UNCHANGED <<graphCreated, panelNodes, mountId, running, status, executions>>

\* the canvas adds a node to _graph
PanelAddNode ==
    /\ PanelFrame
    /\ isMounted
    /\ Len(panelNodes) < MaxPanelNodes
    /\ panelNodes' = Append(panelNodes, [id |-> Len(panelNodes) + 1, boxcolor |-> Null])
    /\ Ran("graph.add", Null)
    /\ UNCHANGED <<graphCreated, mountId, isMounted, running, status, executions>>

\* Run Workflow button (disabled: running) -> handleRun, up to
\* `await executeOperator(execute_graph)`
PanelHandleRun ==
    /\ PanelFrame
    /\ isMounted
    /\ ~running
    /\ graphCreated
    /\ Len(executions) < MaxExecutions
    /\ panelNodes' = [i \in 1..Len(panelNodes) |-> [panelNodes[i] EXCEPT !.boxcolor = Null]]
    /\ running' = TRUE
    /\ status' = "Running..."
    /\ executions' = Append(executions, [mount |-> mountId])
    /\ Ran("handleRun", Null)
    /\ UNCHANGED <<graphCreated, mountId, isMounted>>

\* handleRun after the await (the call returned or threw): setRunning(false)
\* and setStatus("Done") act on the mount the handler belongs to
ExecuteSettles ==
    /\ PanelFrame
    /\ \E i \in 1..Len(executions) :
          /\ executions' = SubSeq(executions, 1, i - 1)
                           \o SubSeq(executions, i + 1, Len(executions))
          /\ IF isMounted /\ executions[i].mount = mountId
             THEN running' = FALSE /\ status' = "Done"
             ELSE UNCHANGED <<running, status>>
    /\ Ran("handleRun.settled", Null)
    /\ UNCHANGED <<graphCreated, panelNodes, mountId, isMounted>>

\* Clear button -> handleClear
PanelHandleClear ==
    /\ PanelFrame
    /\ isMounted
    /\ panelNodes' = <<>>
    /\ status' = "Ready"
    /\ Ran("handleClear", Null)
    /\ UNCHANGED <<graphCreated, mountId, isMounted, running, executions>>

PanelNext ==
    \/ PanelMount
    \/ PanelUnmount
    \/ PanelAddNode
    \/ PanelHandleRun
    \/ ExecuteSettles
    \/ PanelHandleClear

SpecPanel == AllInit /\ [][PanelNext]_vars

(***************************************************************************)
(* The workflows of the singleton panel in localStorage: saveWorkflow,     *)
(* loadWorkflow, handleSave and handleLoad.  The value under STORAGE_KEY   *)
(* is a JSON object, name -> serialized graph.                             *)
(***************************************************************************)
\* variables of the other parts, which a step of the storage leaves alone
StorageFrame ==
    UNCHANGED <<storeVars, runVars, recoilVars, busVars, regVars,
                savedGraphs, backendGraphs, libraryCalls, viewVars>>

\* what the user types into prompt("Workflow name:"); "" stands for Cancel
\* and for an empty name
WorkflowNames == {"", "daily", "review"}

\* _graph.serialize(): the nodes with their ids, without what is painted
serialize == [last_node_id |-> Len(panelNodes),
              nodes |-> [i \in 1..Len(panelNodes) |-> [id |-> panelNodes[i].id]]]

\* _graph.configure(data): the nodes of the data, nothing painted
configure(data) ==
    [i \in 1..Len(data.nodes) |-> [id |-> data.nodes[i].id, boxcolor |-> Null]]

\* saveWorkflow: all[name] = graphData; setItem(STORAGE_KEY, JSON.stringify(all))
saveWorkflow(name, graphData) == (name :> graphData) @@ workflows

\* listWorkflowNames: Object.keys(getSavedWorkflows())
listWorkflowNames == DOMAIN workflows

\* loadWorkflow: getSavedWorkflows()[name] || null
loadWorkflow(name) ==
    IF name \in DOMAIN workflows THEN Some(workflows[name]) ELSE Null

\* Save button -> handleSave: prompt, saveWorkflow(name, _graph.serialize())
StorageHandleSave ==
    /\ StorageFrame
    /\ isMounted
    /\ \E name \in WorkflowNames :
          /\ IF graphCreated /\ name # ""
             THEN /\ workflows' = saveWorkflow(name, serialize)
                  /\ status' = "Saved: " \o name
             ELSE UNCHANGED <<workflows, status>>
          /\ Ran("handleSave", <<name, graphCreated /\ name # "">>)
    /\ UNCHANGED <<graphCreated, panelNodes, mountId, isMounted, running, executions>>

\* Load button -> handleLoadList, then a click on a listed name -> handleLoad
StorageHandleLoad ==
    /\ StorageFrame
    /\ isMounted
    /\ graphCreated
    /\ \E name \in listWorkflowNames :
          /\ panelNodes' = configure(loadWorkflow(name)[1])
          /\ status' = "Loaded: " \o name
          /\ Ran("handleLoad", <<name>>)
    /\ UNCHANGED <<graphCreated, mountId, isMounted, running, executions, workflows>>

StorageNext ==
    \/ PanelMount
    \/ PanelUnmount
    \/ PanelAddNode
    \/ PanelHandleClear
    \/ StorageHandleSave
    \/ StorageHandleLoad

SpecStorage == AllInit /\ [][StorageNext]_vars

(***************************************************************************)
(* operators.ts: the array bus (onEvent / emit) and the Set bus            *)
(* (onNodeStatusUpdate / onExecutionComplete / emitStatusUpdate /          *)
(* emitExecutionComplete).  A listener is the closure a subscriber passes  *)
(* in, known by the number of its creation; whether a call of it throws   *)
(* is up to the listener.                                                  *)
(***************************************************************************)
\* variables of the other parts, which a step of a bus leaves alone
BusFrame == UNCHANGED <<storeVars, runVars, recoilVars, panelVars, regVars, libraryVars, viewVars>>

\* a forEach whose body lets the listener's exception out: it ends at the
\* first listener that throws.  The variant that shows what C8 owes to the
\* try/catch around the call.
RECURSIVE ForEachUncaught(_, _, _)
ForEachUncaught(fns, throwers, done) ==
    IF fns = <<>> THEN done
    ELSE IF Head(fns) \in throwers
         THEN [done EXCEPT !.called = Append(done.called, Head(fns)),
                           !.propagated = TRUE]
         ELSE ForEachUncaught(Tail(fns), throwers,
                              [done EXCEPT !.called = Append(done.called, Head(fns))])

\* forEach((fn) => { try { fn(data) } catch (e) { console.error(...) } })
RECURSIVE ForEachCaught(_, _, _)
ForEachCaught(fns, throwers, done) ==
    IF fns = <<>> THEN done
    ELSE ForEachCaught(Tail(fns), throwers,
            [done EXCEPT !.called = Append(done.called, Head(fns)),
                         !.logged = IF Head(fns) \in throwers
                                    THEN Append(done.logged, Head(fns))
                                    ELSE done.logged])

\* Set.prototype.add on a set kept in insertion order
SetAdd(set, cb) == IF \E i \in 1..Len(set) : set[i] = cb THEN set ELSE Append(set, cb)

\* Set.prototype.delete
SetDelete(set, cb) == SeqFilter(set, LAMBDA f : f # cb)

\* the body of emit / emitStatusUpdate / emitExecutionComplete
Dispatch(bus, fns, throwers) ==
    ForEachCaught(fns, throwers,
        [bus |-> bus, subscribed |-> fns, called |-> <<>>, logged |-> <<>>,
         propagated |-> FALSE])

\* onEvent(event, fn) with a new closure fn
OnEvent ==
    /\ BusFrame
    /\ closures < MaxClosures
    /\ closures' = closures + 1
    /\ \E event \in EventNames :
          listeners' = [listeners EXCEPT ![event] = Append(listeners[event], closures + 1)]
    /\ Ran("onEvent", Null)
    /\ UNCHANGED <<statusListeners, completionListeners, lastEmit>>

\* the function onEvent returned, called for closure fn of event
OnEventUnsubscribe ==
    /\ BusFrame
    /\ \E event \in EventNames, fn \in 1..closures :
          /\ \E i \in 1..Len(listeners[event]) : listeners[event][i] = fn
          /\ listeners' = [listeners EXCEPT
                              ![event] = SeqFilter(listeners[event], LAMBDA f : f # fn)]
    /\ Ran("unsubscribe", Null)
    /\ UNCHANGED <<statusListeners, completionListeners, closures, lastEmit>>

\* NodeStatusUpdateOperator / ExecutionCompleteOperator .execute -> emit(event, data)
Emit ==
    /\ BusFrame
    /\ \E event \in {"node_status", "execution_complete"},
          throwers \in SUBSET (1..closures) :
          lastEmit' = Dispatch(event, Coalesce(listeners[event], <<>>), throwers)
    /\ Ran("emit", Null)
    /\ UNCHANGED <<listeners, statusListeners, completionListeners, closures>>

\* onNodeStatusUpdate(cb) with a new closure cb
OnNodeStatusUpdate ==
    /\ BusFrame
    /\ closures < MaxClosures
    /\ closures' = closures + 1
    /\ statusListeners' = SetAdd(statusListeners, closures + 1)
    /\ Ran("onNodeStatusUpdate", Null)
    /\ UNCHANGED <<listeners, completionListeners, lastEmit>>

\* onExecutionComplete(cb) with a new closure cb
OnExecutionComplete ==
    /\ BusFrame
    /\ closures < MaxClosures
    /\ closures' = closures + 1
    /\ completionListeners' = SetAdd(completionListeners, closures + 1)
    /\ Ran("onExecutionComplete", Null)
    /\ UNCHANGED <<listeners, statusListeners, lastEmit>>

\* the function onNodeStatusUpdate / onExecutionComplete returned
SetUnsubscribe ==
    /\ BusFrame
    /\ \E cb \in 1..closures :
          /\ \E i \in 1..Len(statusListeners \o completionListeners) :
                (statusListeners \o completionListeners)[i] = cb
          /\ statusListeners' = SetDelete(statusListeners, cb)
          /\ completionListeners' = SetDelete(completionListeners, cb)
    /\ Ran("unsubscribe", Null)
    /\ UNCHANGED <<listeners, closures, lastEmit>>

\* NodeStatusUpdateOperator.execute -> emitStatusUpdate(update)
EmitStatusUpdate ==
    /\ BusFrame
    /\ \E throwers \in SUBSET (1..closures) :
          lastEmit' = Dispatch("status", statusListeners, throwers)
    /\ Ran("emit", Null)
    /\ UNCHANGED <<listeners, statusListeners, completionListeners, closures>>

\* ExecutionCompleteOperator.execute -> emitExecutionComplete(summary)
EmitExecutionComplete ==
    /\ BusFrame
    /\ \E throwers \in SUBSET (1..closures) :
          lastEmit' = Dispatch("completion", completionListeners, throwers)
    /\ Ran("emit", Null)
    /\ UNCHANGED <<listeners, statusListeners, completionListeners, closures>>

BusNext ==
    \/ OnEvent
    \/ OnEventUnsubscribe
    \/ Emit
    \/ OnNodeStatusUpdate
    \/ OnExecutionComplete
    \/ SetUnsubscribe
    \/ EmitStatusUpdate
    \/ EmitExecutionComplete

SpecBus == AllInit /\ [][BusNext]_vars

(***************************************************************************)
(* litegraph/registerNodes.ts: the node types it registers, the dataset    *)
(* info cache, the widget populator, node visibility and the search box.   *)
(* Type strings and titles are strings, taken apart character by character *)
(* where the code does (includes, toLowerCase, localeCompare).             *)
(***************************************************************************)
\* a widget as addWidget builds it: options.values is the empty list where
\* the call gives `values: []` and where it gives no options at all
Widget(ty, name, values) == [type |-> ty, name |-> name, values |-> values]

\* the number 0.1 of a property literal, as numerator and denominator
Fraction(n, d) == <<n, d>>

\* the node classes of registerAllNodes in the order of registration: the
\* type given to registerNodeType, the static title, the widgets the
\* constructor adds and the properties it sets
NodeClasses == <<
    [type |-> "FiftyComfy/Source/Current Dataset", title |-> "Current Dataset",
     widgets |-> <<>>,
     properties |-> EmptyRecord],
    [type |-> "FiftyComfy/Source/Load Saved View", title |-> "Load Saved View",
     widgets |-> <<Widget("combo", "view_name", <<>>)>>,
     properties |-> [view_name |-> ""]],
    [type |-> "FiftyComfy/View Stages/Match", title |-> "Match",
     widgets |-> <<Widget("text", "expression", <<>>)>>,
     properties |-> [expression |-> "F('confidence') > 0.5"]],
    [type |-> "FiftyComfy/View Stages/Filter Labels", title |-> "Filter Labels",
     widgets |-> <<Widget("combo", "field", <<>>), Widget("text", "expression", <<>>), Widget("toggle", "only_matches", <<>>)>>,
     properties |-> [field |-> "", expression |-> "F('label') == 'car'", only_matches |-> TRUE]],
    [type |-> "FiftyComfy/View Stages/Match Labels", title |-> "Match Labels",
     widgets |-> <<Widget("combo", "field", <<>>), Widget("text", "filter", <<>>), Widget("toggle", "bool", <<>>)>>,
     properties |-> [field |-> "", filter |-> "F('label') == 'car'", bool |-> TRUE]],
    [type |-> "FiftyComfy/View Stages/Sort By", title |-> "Sort By",
     widgets |-> <<Widget("combo", "field", <<>>), Widget("toggle", "reverse", <<>>)>>,
     properties |-> [field |-> "", reverse |-> FALSE]],
    [type |-> "FiftyComfy/View Stages/Sort By Similarity", title |-> "Sort By Similarity",
     widgets |-> <<Widget("text", "query", <<>>), Widget("text", "brain_key", <<>>), Widget("number", "k", <<>>), Widget("toggle", "reverse", <<>>)>>,
     properties |-> [query |-> "", brain_key |-> "similarity", k |-> 25, reverse |-> FALSE]],
    [type |-> "FiftyComfy/View Stages/Limit", title |-> "Limit",
     widgets |-> <<Widget("number", "count", <<>>)>>,
     properties |-> [count |-> 100]],
    [type |-> "FiftyComfy/View Stages/Match Tags", title |-> "Match Tags",
     widgets |-> <<Widget("text", "tags", <<>>)>>,
     properties |-> [tags |-> ""]],
    [type |-> "FiftyComfy/View Stages/Take", title |-> "Take",
     widgets |-> <<Widget("number", "count", <<>>), Widget("number", "seed", <<>>)>>,
     properties |-> [count |-> 100, seed |-> Null]],
    [type |-> "FiftyComfy/View Stages/Shuffle", title |-> "Shuffle",
     widgets |-> <<Widget("number", "seed", <<>>)>>,
     properties |-> [seed |-> Null]],
    [type |-> "FiftyComfy/View Stages/To Patches", title |-> "To Patches",
     widgets |-> <<Widget("combo", "field", <<>>)>>,
     properties |-> [field |-> ""]],
    [type |-> "FiftyComfy/View Stages/Map Labels", title |-> "Map Labels",
     widgets |-> <<Widget("combo", "field", <<>>), Widget("text", "map", <<>>)>>,
     properties |-> [field |-> "", map |-> "{\"old_label\": \"new_label\"}"]],
    [type |-> "FiftyComfy/View Stages/Exists", title |-> "Exists",
     widgets |-> <<Widget("combo", "field", <<>>), Widget("toggle", "bool", <<>>)>>,
     properties |-> [field |-> "", bool |-> TRUE]],
    [type |-> "FiftyComfy/View Stages/Select Fields", title |-> "Select Fields",
     widgets |-> <<Widget("text", "fields", <<>>)>>,
     properties |-> [fields |-> ""]],
    [type |-> "FiftyComfy/View Stages/Exclude Fields", title |-> "Exclude Fields",
     widgets |-> <<Widget("text", "fields", <<>>)>>,
     properties |-> [fields |-> ""]],
    [type |-> "FiftyComfy/View Stages/Skip", title |-> "Skip",
     widgets |-> <<Widget("number", "count", <<>>)>>,
     properties |-> [count |-> 0]],
    [type |-> "FiftyComfy/View Stages/Filter Field", title |-> "Filter Field",
     widgets |-> <<Widget("combo", "field", <<>>), Widget("text", "expression", <<>>), Widget("toggle", "only_matches", <<>>)>>,
     properties |-> [field |-> "", expression |-> "F() > 0", only_matches |-> TRUE]],
    [type |-> "FiftyComfy/View Stages/Filter Keypoints", title |-> "Filter Keypoints",
     widgets |-> <<Widget("combo", "field", <<>>), Widget("text", "filter", <<>>), Widget("toggle", "only_matches", <<>>)>>,
     properties |-> [field |-> "", filter |-> "F('confidence') > 0.5", only_matches |-> TRUE]],
    [type |-> "FiftyComfy/View Stages/Select Labels", title |-> "Select Labels",
     widgets |-> <<Widget("text", "tags", <<>>), Widget("text", "fields", <<>>)>>,
     properties |-> [tags |-> "", fields |-> ""]],
    [type |-> "FiftyComfy/View Stages/Exclude Labels", title |-> "Exclude Labels",
     widgets |-> <<Widget("text", "tags", <<>>), Widget("text", "fields", <<>>)>>,
     properties |-> [tags |-> "", fields |-> ""]],
    [type |-> "FiftyComfy/View Stages/Set Field", title |-> "Set Field",
     widgets |-> <<Widget("text", "field", <<>>), Widget("text", "expression", <<>>)>>,
     properties |-> [field |-> "", expression |-> "F('confidence') > 0.5"]],
    [type |-> "FiftyComfy/View Stages/Group By", title |-> "Group By",
     widgets |-> <<Widget("combo", "field", <<>>), Widget("toggle", "reverse", <<>>), Widget("toggle", "flat", <<>>)>>,
     properties |-> [field |-> "", reverse |-> FALSE, flat |-> FALSE]],
    [type |-> "FiftyComfy/View Stages/Compute Metadata", title |-> "Compute Metadata",
     widgets |-> <<Widget("toggle", "overwrite", <<>>)>>,
     properties |-> [overwrite |-> FALSE]],
    [type |-> "FiftyComfy/View Stages/Compute BBox Area", title |-> "Compute BBox Area",
     widgets |-> <<Widget("combo", "field", <<>>), Widget("text", "output_field", <<>>), Widget("toggle", "use_pixels", <<>>)>>,
     properties |-> [field |-> "", output_field |-> "bbox_area", use_pixels |-> FALSE]],
    [type |-> "FiftyComfy/Brain/Compute Embeddings", title |-> "Compute Embeddings",
     widgets |-> <<Widget("combo", "model", <<"clip-vit-base32-torch", "clip-vit-large14-torch", "open-clip-vit-b-32", "dinov2-vits14-torch">>), Widget("text", "embeddings_field", <<>>)>>,
     properties |-> [model |-> "clip-vit-base32-torch", embeddings_field |-> "embeddings"]],
    [type |-> "FiftyComfy/Brain/Compute Visualization", title |-> "Compute Visualization",
     widgets |-> <<Widget("text", "brain_key", <<>>), Widget("combo", "method", <<"umap", "tsne", "pca">>), Widget("combo", "num_dims", <<"2", "3">>), Widget("text", "embeddings", <<>>)>>,
     properties |-> [brain_key |-> "visualization", method |-> "umap", num_dims |-> 2, embeddings |-> "embeddings"]],
    [type |-> "FiftyComfy/Brain/Compute Similarity", title |-> "Compute Similarity",
     widgets |-> <<Widget("text", "brain_key", <<>>), Widget("combo", "backend", <<"sklearn", "qdrant", "pinecone", "milvus", "lancedb">>), Widget("text", "embeddings", <<>>)>>,
     properties |-> [brain_key |-> "similarity", backend |-> "sklearn", embeddings |-> "embeddings"]],
    [type |-> "FiftyComfy/Brain/Compute Uniqueness", title |-> "Compute Uniqueness",
     widgets |-> <<Widget("text", "uniqueness_field", <<>>), Widget("text", "embeddings", <<>>)>>,
     properties |-> [uniqueness_field |-> "uniqueness", embeddings |-> "embeddings"]],
    [type |-> "FiftyComfy/Brain/Find Exact Duplicates", title |-> "Find Exact Duplicates",
     widgets |-> <<>>,
     properties |-> EmptyRecord],
    [type |-> "FiftyComfy/Brain/Find Near Duplicates", title |-> "Find Near Duplicates",
     widgets |-> <<Widget("number", "threshold", <<>>), Widget("text", "embeddings", <<>>)>>,
     properties |-> [threshold |-> Fraction(1, 10), embeddings |-> "embeddings"]],
    [type |-> "FiftyComfy/Brain/Compute Representativeness", title |-> "Compute Representativeness",
     widgets |-> <<Widget("text", "representativeness_field", <<>>), Widget("combo", "method", <<"cluster-center", "cluster-center-downweight">>), Widget("text", "embeddings", <<>>)>>,
     properties |-> [representativeness_field |-> "representativeness", method |-> "cluster-center", embeddings |-> "embeddings"]],
    [type |-> "FiftyComfy/Brain/Compute Mistakenness", title |-> "Compute Mistakenness",
     widgets |-> <<Widget("combo", "pred_field", <<>>), Widget("combo", "label_field", <<>>)>>,
     properties |-> [pred_field |-> "", label_field |-> ""]],
    [type |-> "FiftyComfy/Brain/Compute Hardness", title |-> "Compute Hardness",
     widgets |-> <<Widget("combo", "predictions_field", <<>>)>>,
     properties |-> [predictions_field |-> ""]],
    [type |-> "FiftyComfy/Brain/Detect Leaky Splits", title |-> "Detect Leaky Splits",
     widgets |-> <<Widget("text", "splits", <<>>), Widget("number", "threshold", <<>>)>>,
     properties |-> [splits |-> "train,test", threshold |-> Fraction(1, 10)]],
    [type |-> "FiftyComfy/Brain/Manage Brain Run", title |-> "Manage Brain Run",
     widgets |-> <<Widget("combo", "brain_key", <<>>), Widget("combo", "action", <<"delete", "rename">>), Widget("text", "new_name", <<>>)>>,
     properties |-> [brain_key |-> "", action |-> "delete", new_name |-> ""]],
    [type |-> "FiftyComfy/Model/Apply Zoo Model", title |-> "Apply Zoo Model",
     widgets |-> <<Widget("combo", "model", <<>>), Widget("text", "label_field", <<>>), Widget("number", "confidence_thresh", <<>>), Widget("toggle", "store_logits", <<>>)>>,
     properties |-> [model |-> "", label_field |-> "predictions", confidence_thresh |-> 0, store_logits |-> FALSE]],
    [type |-> "FiftyComfy/Evaluation/Evaluate Detections", title |-> "Evaluate Detections",
     widgets |-> <<Widget("combo", "pred_field", <<>>), Widget("combo", "gt_field", <<>>), Widget("text", "eval_key", <<>>), Widget("combo", "method", <<"coco", "open-images">>)>>,
     properties |-> [pred_field |-> "", gt_field |-> "", eval_key |-> "eval", method |-> "coco"]],
    [type |-> "FiftyComfy/Evaluation/Evaluate Classifications", title |-> "Evaluate Classifications",
     widgets |-> <<Widget("combo", "pred_field", <<>>), Widget("combo", "gt_field", <<>>), Widget("text", "eval_key", <<>>)>>,
     properties |-> [pred_field |-> "", gt_field |-> "", eval_key |-> "eval"]],
    [type |-> "FiftyComfy/Evaluation/Manage Evaluation", title |-> "Manage Evaluation",
     widgets |-> <<Widget("combo", "eval_key", <<>>), Widget("combo", "action", <<"delete", "rename">>), Widget("text", "new_name", <<>>)>>,
     properties |-> [eval_key |-> "", action |-> "delete", new_name |-> ""]],
    [type |-> "FiftyComfy/Evaluation/Evaluate Segmentations", title |-> "Evaluate Segmentations",
     widgets |-> <<Widget("combo", "pred_field", <<>>), Widget("combo", "gt_field", <<>>), Widget("text", "eval_key", <<>>), Widget("combo", "method", <<"simple">>)>>,
     properties |-> [pred_field |-> "", gt_field |-> "", eval_key |-> "eval", method |-> "simple"]],
    [type |-> "FiftyComfy/Evaluation/Evaluate Regressions", title |-> "Evaluate Regressions",
     widgets |-> <<Widget("combo", "pred_field", <<>>), Widget("combo", "gt_field", <<>>), Widget("text", "eval_key", <<>>), Widget("combo", "method", <<"simple">>)>>,
     properties |-> [pred_field |-> "", gt_field |-> "", eval_key |-> "eval", method |-> "simple"]],
    [type |-> "FiftyComfy/Evaluation/To Evaluation Patches", title |-> "To Evaluation Patches",
     widgets |-> <<Widget("combo", "eval_key", <<>>)>>,
     properties |-> [eval_key |-> ""]],
    [type |-> "FiftyComfy/Output/Set App View", title |-> "Set App View",
     widgets |-> <<>>,
     properties |-> EmptyRecord],
    [type |-> "FiftyComfy/Output/Save View", title |-> "Save View",
     widgets |-> <<Widget("text", "name", <<>>), Widget("text", "description", <<>>), Widget("toggle", "overwrite", <<>>)>>,
     properties |-> [name |-> "my_view", description |-> "", overwrite |-> FALSE]] >>

\* NODE_VISIBILITY_RULES in the order of its keys: the type and the
\* collection of the dataset info whose emptiness hides it
NODE_VISIBILITY_RULES == <<
    [type |-> "FiftyComfy/Source/Load Saved View", collection |-> "saved_views"],
    [type |-> "FiftyComfy/View Stages/To Patches", collection |-> "patches_fields"],
    [type |-> "FiftyComfy/View Stages/Filter Labels", collection |-> "label_fields"],
    [type |-> "FiftyComfy/View Stages/Match Labels", collection |-> "label_fields"],
    [type |-> "FiftyComfy/View Stages/Map Labels", collection |-> "label_fields"],
    [type |-> "FiftyComfy/View Stages/Filter Keypoints", collection |-> "label_fields"],
    [type |-> "FiftyComfy/View Stages/Select Labels", collection |-> "label_fields"],
    [type |-> "FiftyComfy/View Stages/Exclude Labels", collection |-> "label_fields"],
    [type |-> "FiftyComfy/View Stages/Compute BBox Area", collection |-> "detection_fields"],
    [type |-> "FiftyComfy/Brain/Compute Mistakenness", collection |-> "label_fields"],
    [type |-> "FiftyComfy/Brain/Compute Hardness", collection |-> "label_fields"],
    [type |-> "FiftyComfy/Brain/Manage Brain Run", collection |-> "brain_runs"],
    [type |-> "FiftyComfy/View Stages/Sort By Similarity", collection |-> "brain_runs"],
    [type |-> "FiftyComfy/Evaluation/Evaluate Detections", collection |-> "detection_fields"],
    [type |-> "FiftyComfy/Evaluation/Evaluate Classifications", collection |-> "classification_fields"],
    [type |-> "FiftyComfy/Evaluation/Evaluate Segmentations", collection |-> "segmentation_fields"],
    [type |-> "FiftyComfy/Evaluation/Evaluate Regressions", collection |-> "regression_fields"],
    [type |-> "FiftyComfy/Evaluation/Manage Evaluation", collection |-> "evaluations"],
    [type |-> "FiftyComfy/Evaluation/To Evaluation Patches", collection |-> "evaluations"] >>

\* variables of the other parts, which a step of this part leaves alone
RegFrame == UNCHANGED <<storeVars, runVars, recoilVars, panelVars, busVars, libraryVars, viewVars>>

\* String.prototype.includes
Includes(s, sub) ==
    \E i \in 1..(Len(s) - Len(sub) + 1) : SubSeq(s, i, i + Len(sub) - 1) = sub

UpperCase == "ABCDEFGHIJKLMNOPQRSTUVWXYZ"
LowerCase == "abcdefghijklmnopqrstuvwxyz"

LowerChar(c) ==
    IF \E i \in 1..Len(UpperCase) : SubSeq(UpperCase, i, i) = c
    THEN LET i == CHOOSE j \in 1..Len(UpperCase) : SubSeq(UpperCase, j, j) = c
         IN SubSeq(LowerCase, i, i)
    ELSE c

\* String.prototype.toLowerCase
RECURSIVE toLowerCase(_)
toLowerCase(s) ==
    IF Len(s) = 0 THEN ""
    ELSE LowerChar(SubSeq(s, 1, 1)) \o toLowerCase(SubSeq(s, 2, Len(s)))

\* the order of the characters of lower-cased type strings and titles under
\* localeCompare: the space, the punctuation, then the letters
CollationOrder == " /-()" \o LowerCase

CharRank(c) ==
    IF \E i \in 1..Len(CollationOrder) : SubSeq(CollationOrder, i, i) = c
    THEN CHOOSE i \in 1..Len(CollationOrder) : SubSeq(CollationOrder, i, i) = c
    ELSE 0

\* a.localeCompare(b) <= 0 on lower-cased strings
RECURSIVE LocaleLeq(_, _)
LocaleLeq(a, b) ==
    IF Len(a) = 0 THEN TRUE
    ELSE IF Len(b) = 0 THEN FALSE
    ELSE IF SubSeq(a, 1, 1) = SubSeq(b, 1, 1)
         THEN LocaleLeq(SubSeq(a, 2, Len(a)), SubSeq(b, 2, Len(b)))
         ELSE CharRank(SubSeq(a, 1, 1)) < CharRank(SubSeq(b, 1, 1))

\* a population rule: the collection that feeds the dropdown and the
\* placeholder shown when the collection is empty
Rule(collection, placeholder) == [collection |-> collection, placeholder |-> placeholder]

NoRule == Rule("", "")

\* a chain with its last branch only, every "field" dropdown drawing from
\* the fields of the dataset: the variant that shows what C20 owes to the
\* branches by node type
PopulationRuleByName(name, t) ==
    IF name = "field" THEN Rule("fields", "(no fields)") ELSE NoRule

\* the if / else-if chain of populateNodeCombos for the combo `name` of a
\* node of type t
PopulationRule(name, t) ==
    IF name = "view_name" /\ Includes(t, "Source/")
    THEN Rule("saved_views", "(no saved views)")
    ELSE IF name = "field" /\ Includes(t, "To Patches")
    THEN Rule("patches_fields", "(no patchable fields)")
    ELSE IF name = "field" /\ (\/ Includes(t, "Filter Labels")
                               \/ Includes(t, "Match Labels")
                               \/ Includes(t, "Map Labels"))
    THEN Rule("label_fields", "(no label fields)")
    ELSE IF name \in {"pred_field", "label_field", "predictions_field"}
            /\ Includes(t, "Brain/")
    THEN Rule("label_fields", "(no label fields)")
    ELSE IF name = "model" /\ Includes(t, "Model/")
    THEN Rule("zoo_models", "(no models available)")
    ELSE IF name \in {"pred_field", "gt_field"} /\ Includes(t, "Evaluate Detections")
    THEN Rule("detection_fields", "(no detection fields)")
    ELSE IF name \in {"pred_field", "gt_field"} /\ Includes(t, "Evaluate Classifications")
    THEN Rule("classification_fields", "(no classification fields)")
    ELSE IF name \in {"pred_field", "gt_field"} /\ Includes(t, "Evaluate Segmentations")
    THEN Rule("segmentation_fields", "(no segmentation fields)")
    ELSE IF name \in {"pred_field", "gt_field"} /\ Includes(t, "Evaluate Regressions")
    THEN Rule("regression_fields", "(no regression fields)")
    ELSE IF name = "eval_key" /\ (\/ Includes(t, "Manage Evaluation")
                                  \/ Includes(t, "To Evaluation Patches"))
    THEN Rule("evaluations", "(no evaluations)")
    ELSE IF name = "brain_key" /\ Includes(t, "Manage Brain Run")
    THEN Rule("brain_runs", "(no brain runs)")
    ELSE IF name = "field" /\ Includes(t, "Compute BBox Area")
    THEN Rule("detection_fields", "(no detection fields)")
    ELSE IF name = "field" /\ Includes(t, "Filter Keypoints")
    THEN Rule("label_fields", "(no label fields)")
    ELSE IF name = "field"
    THEN Rule("fields", "(no fields)")
    ELSE NoRule

\* a dropdown fed with the collection even when it is empty: the variant
\* that shows what C10 owes to the placeholder
CandidatesAsTheyAre(info, rule) == info.collections[rule.collection]

\* `collection.length > 0 ? collection : [placeholder]`
Candidates(info, rule) ==
    IF Len(info.collections[rule.collection]) > 0
    THEN info.collections[rule.collection]
    ELSE <<rule.placeholder>>

\* the body of the loop over node.widgets
PopulatedWidget(w, t, info) ==
    IF w.type # "combo" THEN w
    ELSE IF PopulationRule(w.name, t) = NoRule THEN w
    ELSE [w EXCEPT !.values = Candidates(info, PopulationRule(w.name, t))]

\* a populator that puts the first candidate into the property of every
\* dropdown it fills: the variant that shows what C11 owes to the populator
\* writing w.options.values only
PropertiesWithFirstCandidate(node, info) ==
    [key \in DOMAIN node.properties |->
        IF \E k \in 1..Len(node.widgets) :
              /\ node.widgets[k].type = "combo"
              /\ node.widgets[k].name = key
              /\ PopulationRule(key, node.type) # NoRule
        THEN Candidates(info, PopulationRule(key, node.type))[1]
        ELSE node.properties[key]]

\* node.properties after populateNodeCombos: the only write is the hint
\* _available_classes of Filter Labels and Match Labels
PopulatedProperties(node, info) ==
    LET t == node.type
        fieldVal == node.properties.field
        hinted == /\ Includes(t, "Filter Labels") \/ Includes(t, "Match Labels")
                  /\ fieldVal \in DOMAIN info.label_classes
                  /\ Len(info.label_classes[fieldVal]) > 0
    IN IF hinted
       THEN ("_available_classes" :> info.label_classes[fieldVal]) @@ node.properties
       ELSE node.properties

\* populateNodeCombos(node): the node after it
populateNodeCombos(node, info) ==
    [node EXCEPT
        !.widgets = [i \in 1..Len(node.widgets) |->
                        PopulatedWidget(node.widgets[i], node.type, info)],
        !.properties = PopulatedProperties(node, info)]

\* updateAllComboWidgets(graph): the nodes after it
updateAllComboWidgets(graphNodes, info) ==
    [i \in 1..Len(graphNodes) |-> populateNodeCombos(graphNodes[i], info)]

\* the constructor registered under a type: its index in
\* registered_node_types, 0 when there is none
Registered(regs, ty) ==
    IF \E i \in 1..Len(regs) : regs[i].type = ty
    THEN CHOOSE i \in 1..Len(regs) : regs[i].type = ty
    ELSE 0

\* shouldHide(_datasetInfo) of a rule
ShouldHide(rule, info) == Len(info.collections[rule.collection]) = 0

\* updateNodeVisibility(): _hiddenNodeTypes after it
HiddenAfterUpdate(regs, info) ==
    {NODE_VISIBILITY_RULES[k].type : k \in
        {j \in 1..Len(NODE_VISIBILITY_RULES) :
            /\ Registered(regs, NODE_VISIBILITY_RULES[j].type) # 0
            /\ ShouldHide(NODE_VISIBILITY_RULES[j], info)}}

\* updateNodeVisibility(): the constructors after it (ctor.skip_list = hidden)
SkipListsAfterUpdate(regs, info) ==
    [i \in 1..Len(regs) |->
        IF \E j \in 1..Len(NODE_VISIBILITY_RULES) : NODE_VISIBILITY_RULES[j].type = regs[i].type
        THEN [regs[i] EXCEPT !.skip_list =
                 Some(ShouldHide(
                     NODE_VISIBILITY_RULES[CHOOSE j \in 1..Len(NODE_VISIBILITY_RULES) :
                         NODE_VISIBILITY_RULES[j].type = regs[i].type], info))]
        ELSE regs[i]]

\* what the user may type into the search box
Queries == {"", "LABELS", "brain/", "sort by"}

\* toLowerCase, tabulated over the strings the search applies it to
LowerCased ==
    [str \in Queries
          \cup {NodeClasses[i].type : i \in 1..Len(NodeClasses)}
          \cup {NodeClasses[i].title : i \in 1..Len(NodeClasses)} |-> toLowerCase(str)]

\* titleA.localeCompare(titleB) <= 0, tabulated over the titles
TitleLeq ==
    [a \in {NodeClasses[i].title : i \in 1..Len(NodeClasses)} |->
        [b \in {NodeClasses[i].title : i \in 1..Len(NodeClasses)} |->
            LocaleLeq(LowerCased[a], LowerCased[b])]]

\* the search that lets the hidden types through: the variant that shows
\* what C9 owes to `if (_hiddenNodeTypes.has(type)) continue`
SearchMatchesUnfiltered(regs, hidden, query) ==
    SeqFilter(regs, LAMBDA ctor :
        \/ Len(LowerCased[query]) = 0
        \/ Includes(LowerCased[ctor.type], LowerCased[query])
        \/ Includes(LowerCased[ctor.title], LowerCased[query]))

\* the loop of onSearchBox: the constructors whose type is pushed to results
SearchMatches(regs, hidden, query) ==
    SeqFilter(regs, LAMBDA ctor :
        /\ ctor.type \notin hidden
        /\ \/ Len(LowerCased[query]) = 0
           \/ Includes(LowerCased[ctor.type], LowerCased[query])
           \/ Includes(LowerCased[ctor.title], LowerCased[query]))

\* results.sort by title (Array.prototype.sort is stable): one insertion
RECURSIVE InsertByTitle(_, _)
InsertByTitle(sorted, ctor) ==
    IF sorted = <<>> THEN <<ctor>>
    ELSE IF TitleLeq[sorted[Len(sorted)].title][ctor.title]
         THEN Append(sorted, ctor)
         ELSE Append(InsertByTitle(SubSeq(sorted, 1, Len(sorted) - 1), ctor),
                     sorted[Len(sorted)])

RECURSIVE SortByTitle(_, _)
SortByTitle(ctors, sorted) ==
    IF ctors = <<>> THEN sorted
    ELSE SortByTitle(Tail(ctors), InsertByTitle(sorted, Head(ctors)))

\* canvas.onSearchBox(helper, query, graphcanvas): the types it returns
onSearchBox(regs, hidden, query) ==
    LET found == SortByTitle(SearchMatches(regs, hidden, query), <<>>)
    IN [i \in 1..Len(found) |-> found[i].type]

\* the node `new ctor()` builds for a registered class
NewCanvasNode(class) ==
    [type |-> class.type,
     title |-> class.title,
     widgets |-> class.widgets,
     properties |-> class.properties]

\* the mount effect of the panel: registerAllNodes() (once), the graph and
\* its onNodeAdded hook, the search filter, the dataset_info listener
RegisterAllNodes ==
    /\ RegFrame
    /\ ~registered
    /\ registered' = TRUE
    /\ registeredNodeTypes' =
          [i \in 1..Len(NodeClasses) |->
              [type |-> NodeClasses[i].type, title |-> NodeClasses[i].title,
               skip_list |-> Undefined]]
    /\ Ran("registerAllNodes", Null)
    /\ UNCHANGED <<datasetInfo, currentDatasetName, hiddenNodeTypes, canvasNodes>>

\* a listener that keeps the graph whatever dataset the info is of: the
\* variant that shows what C25 owes to `if (_graph) _graph.clear()`
NodesKeptOnDatasetInfo(newName) == canvasNodes

\* the first statements of the dataset_info listener: the nodes of _graph
\* after `if (_currentDatasetName && newName && newName !==
\* _currentDatasetName) _graph.clear()`
NodesOnDatasetInfo(newName) ==
    IF currentDatasetName # "" /\ newName # "" /\ newName # currentDatasetName
    THEN <<>>
    ELSE canvasNodes

\* the dataset_info listener: a change of dataset clears the graph; then
\* setDatasetInfo(info) (with updateNodeVisibility) and updateAllComboWidgets
DatasetInfoArrives ==
    /\ RegFrame
    /\ registered
    /\ \E info \in DatasetInfos :
          /\ currentDatasetName' = info.dataset_name
          /\ datasetInfo' = info
          /\ hiddenNodeTypes' = HiddenAfterUpdate(registeredNodeTypes, info)
          /\ registeredNodeTypes' = SkipListsAfterUpdate(registeredNodeTypes, info)
          /\ canvasNodes' = updateAllComboWidgets(NodesOnDatasetInfo(info.dataset_name), info)
    /\ Ran("dataset_info", <<Len(canvasNodes)>>)
    /\ UNCHANGED registered

\* a hook that calls the callback installed before it first and populates
\* afterwards: the variant that shows what C22 owes to the order of the two
\* statements of the hook
onNodeAddedPrevFirst(node, info) ==
    [node |-> populateNodeCombos(node, info), seen |-> node]

\* the onNodeAdded hookNodeAdded installs: populateNodeCombos(node), then
\* the callback that was installed before, which sees the node as `seen`
onNodeAdded(node, info) ==
    [node |-> populateNodeCombos(node, info),
     seen |-> populateNodeCombos(node, info)]

\* the user picks a type the search box or the menu offers; graph.add calls
\* the onNodeAdded hook, which populates the node's dropdowns
CanvasAddNode ==
    /\ RegFrame
    /\ Len(canvasNodes) < MaxCanvasNodes
    /\ \E i \in 1..Len(registeredNodeTypes) :
          /\ registeredNodeTypes[i].type \notin hiddenNodeTypes
          /\ canvasNodes' = Append(canvasNodes,
                               onNodeAdded(NewCanvasNode(NodeClasses[i]), datasetInfo).node)
          /\ Ran("onNodeAdded", <<onNodeAdded(NewCanvasNode(NodeClasses[i]), datasetInfo).seen>>)
    /\ UNCHANGED <<registered, registeredNodeTypes, datasetInfo, currentDatasetName,
                   hiddenNodeTypes>>

\* parseInt of a string of decimal digits
RECURSIVE parseInt(_)
parseInt(str) ==
    IF Len(str) = 0 THEN 0
    ELSE 10 * parseInt(SubSeq(str, 1, Len(str) - 1))
         + (CHOOSE dgt \in 0..9 :
               SubSeq("0123456789", dgt + 1, dgt + 1) = SubSeq(str, Len(str), Len(str)))

\* what the callback of a dropdown stores for the picked string v: v, and
\* for num_dims parseInt(v)
Callback(w, v) == IF w.name = "num_dims" THEN parseInt(v) ELSE v

\* the user picks a value in a dropdown: the widget's callback stores it
\* in the property of the widget's name
FieldPicked ==
    /\ RegFrame
    /\ \E n \in 1..Len(canvasNodes) :
          \E k \in 1..Len(canvasNodes[n].widgets) :
             LET w == canvasNodes[n].widgets[k] IN
             /\ w.type = "combo"
             /\ \E v \in 1..Len(w.values) :
                   /\ canvasNodes[n].properties[w.name] # Callback(w, w.values[v])
                   /\ canvasNodes' = [canvasNodes EXCEPT
                          ![n].properties[w.name] = Callback(w, w.values[v])]
    /\ Ran("widget.callback", Null)
    /\ UNCHANGED <<registered, registeredNodeTypes, datasetInfo, currentDatasetName,
                   hiddenNodeTypes>>

\* the search box calls canvas.onSearchBox with what the user typed
SearchBox ==
    /\ RegFrame
    /\ registered
    /\ \E query \in Queries :
          Ran("onSearchBox", <<query, onSearchBox(registeredNodeTypes, hiddenNodeTypes, query)>>)
    /\ UNCHANGED <<registered, registeredNodeTypes, datasetInfo, currentDatasetName,
                   hiddenNodeTypes, canvasNodes>>

RegNext ==
    \/ RegisterAllNodes
    \/ DatasetInfoArrives
    \/ CanvasAddNode
    \/ FieldPicked
    \/ SearchBox

SpecNodes == AllInit /\ [][RegNext]_vars

(***************************************************************************)
(* templates.ts: the built-in templates, built by node(), link() and       *)
(* makeGraph() from counters that resetIds() sets back to 1, and           *)
(* loadGraphData, which hands one to _graph.configure.  The geometry of a  *)
(* node (pos, size) and its flags, order and mode are left out; the link   *)
(* of an input is Some(id), or Null.                                       *)
(***************************************************************************)
\* node(type, title, x, y, w, h, properties, inputs, outputs) at _nid = id:
\* the title is not part of what it returns
node(id, args) ==
    [id |-> id, type |-> args.type, properties |-> args.properties,
     inputs |-> args.inputs, outputs |-> args.outputs]

\* link(originId, originSlot, targetId, targetSlot) at _lid = id
link(id, args) == <<id, args[1], args[2], args[3], args[4], "FO_VIEW">>

\* the calls of node() of a builder, in their order, after resetIds()
NodesInOrder(built) == [i \in 1..Len(built) |-> node(i, built[i])]

\* the calls of link() of a builder, in their order, after resetIds()
LinksInOrder(built) == [i \in 1..Len(built) |-> link(i, built[i])]

\* Math.max(...ids), 0 for none
MaxOf(ids) == IF ids = {} THEN 0 ELSE CHOOSE m \in ids : \A i \in ids : i <= m

\* a makeGraph that takes the counters as they stand after the builder: the
\* variant that shows what C27 owes to Math.max over the ids
makeGraphFromCounters(graphNodes, links) ==
    [last_node_id |-> Len(graphNodes) + 1,
     last_link_id |-> Len(links) + 1,
     nodes |-> graphNodes,
     links |-> links]

\* makeGraph(nodes, links)
makeGraph(graphNodes, links) ==
    [last_node_id |-> MaxOf({graphNodes[i].id : i \in 1..Len(graphNodes)}),
     last_link_id |-> MaxOf({links[i][1] : i \in 1..Len(links)}),
     nodes |-> graphNodes,
     links |-> links]

\* templates.ts: BUILTIN_TEMPLATES
BUILTIN_TEMPLATES == <<
    [id |-> "compute-visualize-embeddings", name |-> "Compute & Visualize Embeddings", category |-> "Data Curation",
     graph |->   \* buildComputeVisualizeEmbeddings()
         makeGraph(
             NodesInOrder(<<
                 [type |-> "FiftyComfy/Source/Current Dataset", title |-> "Current Dataset",
                  properties |-> EmptyRecord,
                  inputs |-> <<>>,
                  outputs |-> <<[name |-> "view", type |-> "FO_VIEW", links |-> <<1>>]>>],
                 [type |-> "FiftyComfy/Brain/Compute Embeddings", title |-> "Compute Embeddings",
                  properties |-> [model |-> "clip-vit-base32-torch", embeddings_field |-> "embeddings"],
                  inputs |-> <<[name |-> "view", type |-> "FO_VIEW", link |-> Some(1)]>>,
                  outputs |-> <<[name |-> "view", type |-> "FO_VIEW", links |-> <<2>>]>>],
                 [type |-> "FiftyComfy/Brain/Compute Visualization", title |-> "Compute Visualization",
                  properties |-> [brain_key |-> "visualization", method |-> "umap", num_dims |-> 2, embeddings |-> "embeddings"],
                  inputs |-> <<[name |-> "view", type |-> "FO_VIEW", link |-> Some(2)]>>,
                  outputs |-> <<[name |-> "view", type |-> "FO_VIEW", links |-> <<3>>]>>],
                 [type |-> "FiftyComfy/Output/Set App View", title |-> "Set App View",
                  properties |-> EmptyRecord,
                  inputs |-> <<[name |-> "view", type |-> "FO_VIEW", link |-> Some(3)]>>,
                  outputs |-> <<>>]>>),
             LinksInOrder(<<<<1, 0, 2, 0>>, <<2, 0, 3, 0>>, <<3, 0, 4, 0>>>>))],
    [id |-> "find-near-duplicates", name |-> "Find Near Duplicates", category |-> "Data Curation",
     graph |->   \* buildFindNearDuplicates()
         makeGraph(
             NodesInOrder(<<
                 [type |-> "FiftyComfy/Source/Current Dataset", title |-> "Current Dataset",
                  properties |-> EmptyRecord,
                  inputs |-> <<>>,
                  outputs |-> <<[name |-> "view", type |-> "FO_VIEW", links |-> <<1>>]>>],
                 [type |-> "FiftyComfy/Brain/Compute Embeddings", title |-> "Compute Embeddings",
                  properties |-> [model |-> "clip-vit-base32-torch", embeddings_field |-> "embeddings"],
                  inputs |-> <<[name |-> "view", type |-> "FO_VIEW", link |-> Some(1)]>>,
                  outputs |-> <<[name |-> "view", type |-> "FO_VIEW", links |-> <<2>>]>>],
                 [type |-> "FiftyComfy/Brain/Find Near Duplicates", title |-> "Find Near Duplicates",
                  properties |-> [threshold |-> Fraction(1, 10), embeddings |-> "embeddings"],
                  inputs |-> <<[name |-> "view", type |-> "FO_VIEW", link |-> Some(2)]>>,
                  outputs |-> <<[name |-> "view", type |-> "FO_VIEW", links |-> <<3>>]>>],
                 [type |-> "FiftyComfy/Output/Set App View", title |-> "Set App View",
                  properties |-> EmptyRecord,
                  inputs |-> <<[name |-> "view", type |-> "FO_VIEW", link |-> Some(3)]>>,
                  outputs |-> <<>>]>>),
             LinksInOrder(<<<<1, 0, 2, 0>>, <<2, 0, 3, 0>>, <<3, 0, 4, 0>>>>))],
    [id |-> "find-exact-duplicates", name |-> "Find Exact Duplicates", category |-> "Data Curation",
     graph |->   \* buildFindExactDuplicates()
         makeGraph(
             NodesInOrder(<<
                 [type |-> "FiftyComfy/Source/Current Dataset", title |-> "Current Dataset",
                  properties |-> EmptyRecord,
                  inputs |-> <<>>,
                  outputs |-> <<[name |-> "view", type |-> "FO_VIEW", links |-> <<1>>]>>],
                 [type |-> "FiftyComfy/Brain/Find Exact Duplicates", title |-> "Find Exact Duplicates",
                  properties |-> EmptyRecord,
                  inputs |-> <<[name |-> "view", type |-> "FO_VIEW", link |-> Some(1)]>>,
                  outputs |-> <<[name |-> "view", type |-> "FO_VIEW", links |-> <<2>>]>>],
                 [type |-> "FiftyComfy/Output/Set App View", title |-> "Set App View",
                  properties |-> EmptyRecord,
                  inputs |-> <<[name |-> "view", type |-> "FO_VIEW", link |-> Some(2)]>>,
                  outputs |-> <<>>]>>),
             LinksInOrder(<<<<1, 0, 2, 0>>, <<2, 0, 3, 0>>>>))],
    [id |-> "curate-by-uniqueness", name |-> "Curate by Uniqueness", category |-> "Data Curation",
     graph |->   \* buildCurateByUniqueness()
         makeGraph(
             NodesInOrder(<<
                 [type |-> "FiftyComfy/Source/Current Dataset", title |-> "Current Dataset",
                  properties |-> EmptyRecord,
                  inputs |-> <<>>,
                  outputs |-> <<[name |-> "view", type |-> "FO_VIEW", links |-> <<1>>]>>],
                 [type |-> "FiftyComfy/Brain/Compute Uniqueness", title |-> "Compute Uniqueness",
                  properties |-> [uniqueness_field |-> "uniqueness", embeddings |-> "embeddings"],
                  inputs |-> <<[name |-> "view", type |-> "FO_VIEW", link |-> Some(1)]>>,
                  outputs |-> <<[name |-> "view", type |-> "FO_VIEW", links |-> <<2>>]>>],
                 [type |-> "FiftyComfy/View Stages/Sort By", title |-> "Sort By",
                  properties |-> [field |-> "uniqueness", reverse |-> TRUE],
                  inputs |-> <<[name |-> "view", type |-> "FO_VIEW", link |-> Some(2)]>>,
                  outputs |-> <<[name |-> "view", type |-> "FO_VIEW", links |-> <<3>>]>>],
                 [type |-> "FiftyComfy/View Stages/Limit", title |-> "Limit",
                  properties |-> [count |-> 100],
                  inputs |-> <<[name |-> "view", type |-> "FO_VIEW", link |-> Some(3)]>>,
                  outputs |-> <<[name |-> "view", type |-> "FO_VIEW", links |-> <<4>>]>>],
                 [type |-> "FiftyComfy/Output/Set App View", title |-> "Set App View",
                  properties |-> EmptyRecord,
                  inputs |-> <<[name |-> "view", type |-> "FO_VIEW", link |-> Some(4)]>>,
                  outputs |-> <<>>]>>),
             LinksInOrder(<<<<1, 0, 2, 0>>, <<2, 0, 3, 0>>, <<3, 0, 4, 0>>, <<4, 0, 5, 0>>>>))],
    [id |-> "curate-by-representativeness", name |-> "Curate by Representativeness", category |-> "Data Curation",
     graph |->   \* buildCurateByRepresentativeness()
         makeGraph(
             NodesInOrder(<<
                 [type |-> "FiftyComfy/Source/Current Dataset", title |-> "Current Dataset",
                  properties |-> EmptyRecord,
                  inputs |-> <<>>,
                  outputs |-> <<[name |-> "view", type |-> "FO_VIEW", links |-> <<1>>]>>],
                 [type |-> "FiftyComfy/Brain/Compute Representativeness", title |-> "Compute Representativeness",
                  properties |-> [representativeness_field |-> "representativeness", method |-> "cluster-center", embeddings |-> "embeddings"],
                  inputs |-> <<[name |-> "view", type |-> "FO_VIEW", link |-> Some(1)]>>,
                  outputs |-> <<[name |-> "view", type |-> "FO_VIEW", links |-> <<2>>]>>],
                 [type |-> "FiftyComfy/View Stages/Sort By", title |-> "Sort By",
                  properties |-> [field |-> "representativeness", reverse |-> TRUE],
                  inputs |-> <<[name |-> "view", type |-> "FO_VIEW", link |-> Some(2)]>>,
                  outputs |-> <<[name |-> "view", type |-> "FO_VIEW", links |-> <<3>>]>>],
                 [type |-> "FiftyComfy/View Stages/Limit", title |-> "Limit",
                  properties |-> [count |-> 100],
                  inputs |-> <<[name |-> "view", type |-> "FO_VIEW", link |-> Some(3)]>>,
                  outputs |-> <<[name |-> "view", type |-> "FO_VIEW", links |-> <<4>>]>>],
                 [type |-> "FiftyComfy/Output/Set App View", title |-> "Set App View",
                  properties |-> EmptyRecord,
                  inputs |-> <<[name |-> "view", type |-> "FO_VIEW", link |-> Some(4)]>>,
                  outputs |-> <<>>]>>),
             LinksInOrder(<<<<1, 0, 2, 0>>, <<2, 0, 3, 0>>, <<3, 0, 4, 0>>, <<4, 0, 5, 0>>>>))],
    [id |-> "find-annotation-mistakes", name |-> "Find Annotation Mistakes", category |-> "Quality",
     graph |->   \* buildFindAnnotationMistakes()
         makeGraph(
             NodesInOrder(<<
                 [type |-> "FiftyComfy/Source/Current Dataset", title |-> "Current Dataset",
                  properties |-> EmptyRecord,
                  inputs |-> <<>>,
                  outputs |-> <<[name |-> "view", type |-> "FO_VIEW", links |-> <<1>>]>>],
                 [type |-> "FiftyComfy/Brain/Compute Mistakenness", title |-> "Compute Mistakenness",
                  properties |-> [pred_field |-> "", label_field |-> ""],
                  inputs |-> <<[name |-> "view", type |-> "FO_VIEW", link |-> Some(1)]>>,
                  outputs |-> <<[name |-> "view", type |-> "FO_VIEW", links |-> <<2>>]>>],
                 [type |-> "FiftyComfy/View Stages/Sort By", title |-> "Sort By",
                  properties |-> [field |-> "mistakenness", reverse |-> TRUE],
                  inputs |-> <<[name |-> "view", type |-> "FO_VIEW", link |-> Some(2)]>>,
                  outputs |-> <<[name |-> "view", type |-> "FO_VIEW", links |-> <<3>>]>>],
                 [type |-> "FiftyComfy/Output/Set App View", title |-> "Set App View",
                  properties |-> EmptyRecord,
                  inputs |-> <<[name |-> "view", type |-> "FO_VIEW", link |-> Some(3)]>>,
                  outputs |-> <<>>]>>),
             LinksInOrder(<<<<1, 0, 2, 0>>, <<2, 0, 3, 0>>, <<3, 0, 4, 0>>>>))],
    [id |-> "sample-hardness", name |-> "Sample Hardness", category |-> "Quality",
     graph |->   \* buildSampleHardness()
         makeGraph(
             NodesInOrder(<<
                 [type |-> "FiftyComfy/Source/Current Dataset", title |-> "Current Dataset",
                  properties |-> EmptyRecord,
                  inputs |-> <<>>,
                  outputs |-> <<[name |-> "view", type |-> "FO_VIEW", links |-> <<1>>]>>],
                 [type |-> "FiftyComfy/Brain/Compute Hardness", title |-> "Compute Hardness",
                  properties |-> [predictions_field |-> ""],
                  inputs |-> <<[name |-> "view", type |-> "FO_VIEW", link |-> Some(1)]>>,
                  outputs |-> <<[name |-> "view", type |-> "FO_VIEW", links |-> <<2>>]>>],
                 [type |-> "FiftyComfy/View Stages/Sort By", title |-> "Sort By",
                  properties |-> [field |-> "hardness", reverse |-> TRUE],
                  inputs |-> <<[name |-> "view", type |-> "FO_VIEW", link |-> Some(2)]>>,
                  outputs |-> <<[name |-> "view", type |-> "FO_VIEW", links |-> <<3>>]>>],
                 [type |-> "FiftyComfy/Output/Set App View", title |-> "Set App View",
                  properties |-> EmptyRecord,
                  inputs |-> <<[name |-> "view", type |-> "FO_VIEW", link |-> Some(3)]>>,
                  outputs |-> <<>>]>>),
             LinksInOrder(<<<<1, 0, 2, 0>>, <<2, 0, 3, 0>>, <<3, 0, 4, 0>>>>))],
    [id |-> "filter-high-confidence", name |-> "Filter High-Confidence Predictions", category |-> "Filtering",
     graph |->   \* buildFilterHighConfidence()
         makeGraph(
             NodesInOrder(<<
                 [type |-> "FiftyComfy/Source/Current Dataset", title |-> "Current Dataset",
                  properties |-> EmptyRecord,
                  inputs |-> <<>>,
                  outputs |-> <<[name |-> "view", type |-> "FO_VIEW", links |-> <<1>>]>>],
                 [type |-> "FiftyComfy/View Stages/Filter Labels", title |-> "Filter Labels",
                  properties |-> [field |-> "", expression |-> "F('confidence') > 0.9", only_matches |-> TRUE],
                  inputs |-> <<[name |-> "view", type |-> "FO_VIEW", link |-> Some(1)]>>,
                  outputs |-> <<[name |-> "view", type |-> "FO_VIEW", links |-> <<2>>]>>],
                 [type |-> "FiftyComfy/Output/Set App View", title |-> "Set App View",
                  properties |-> EmptyRecord,
                  inputs |-> <<[name |-> "view", type |-> "FO_VIEW", link |-> Some(2)]>>,
                  outputs |-> <<>>]>>),
             LinksInOrder(<<<<1, 0, 2, 0>>, <<2, 0, 3, 0>>>>))],
    [id |-> "filter-by-bbox-area", name |-> "Filter by BBox Area", category |-> "Filtering",
     graph |->   \* buildFilterByBBoxArea()
         makeGraph(
             NodesInOrder(<<
                 [type |-> "FiftyComfy/Source/Current Dataset", title |-> "Current Dataset",
                  properties |-> EmptyRecord,
                  inputs |-> <<>>,
                  outputs |-> <<[name |-> "view", type |-> "FO_VIEW", links |-> <<1>>]>>],
                 [type |-> "FiftyComfy/View Stages/Compute Metadata", title |-> "Compute Metadata",
                  properties |-> [overwrite |-> FALSE],
                  inputs |-> <<[name |-> "view", type |-> "FO_VIEW", link |-> Some(1)]>>,
                  outputs |-> <<[name |-> "view", type |-> "FO_VIEW", links |-> <<2>>]>>],
                 [type |-> "FiftyComfy/View Stages/Compute BBox Area", title |-> "Compute BBox Area",
                  properties |-> [field |-> "", output_field |-> "bbox_area", area_mode |-> "pixel"],
                  inputs |-> <<[name |-> "view", type |-> "FO_VIEW", link |-> Some(2)]>>,
                  outputs |-> <<[name |-> "view", type |-> "FO_VIEW", links |-> <<3>>]>>],
                 [type |-> "FiftyComfy/View Stages/Filter Labels", title |-> "Filter Labels",
                  properties |-> [field |-> "", expression |-> "F('bbox_area') > 1024", only_matches |-> TRUE],
                  inputs |-> <<[name |-> "view", type |-> "FO_VIEW", link |-> Some(3)]>>,
                  outputs |-> <<[name |-> "view", type |-> "FO_VIEW", links |-> <<4>>]>>],
                 [type |-> "FiftyComfy/Output/Set App View", title |-> "Set App View",
                  properties |-> EmptyRecord,
                  inputs |-> <<[name |-> "view", type |-> "FO_VIEW", link |-> Some(4)]>>,
                  outputs |-> <<>>]>>),
             LinksInOrder(<<<<1, 0, 2, 0>>, <<2, 0, 3, 0>>, <<3, 0, 4, 0>>, <<4, 0, 5, 0>>>>))],
    [id |-> "evaluate-detections", name |-> "Evaluate Detections", category |-> "Evaluation",
     graph |->   \* buildEvaluateDetections()
         makeGraph(
             NodesInOrder(<<
                 [type |-> "FiftyComfy/Source/Current Dataset", title |-> "Current Dataset",
                  properties |-> EmptyRecord,
                  inputs |-> <<>>,
                  outputs |-> <<[name |-> "view", type |-> "FO_VIEW", links |-> <<1>>]>>],
                 [type |-> "FiftyComfy/Evaluation/Evaluate Detections", title |-> "Evaluate Detections",
                  properties |-> [pred_field |-> "", gt_field |-> "", eval_key |-> "eval", method |-> "coco"],
                  inputs |-> <<[name |-> "view", type |-> "FO_VIEW", link |-> Some(1)]>>,
                  outputs |-> <<[name |-> "view", type |-> "FO_VIEW", links |-> <<2>>]>>],
                 [type |-> "FiftyComfy/Evaluation/To Evaluation Patches", title |-> "To Evaluation Patches",
                  properties |-> [eval_key |-> "eval"],
                  inputs |-> <<[name |-> "view", type |-> "FO_VIEW", link |-> Some(2)]>>,
                  outputs |-> <<[name |-> "view", type |-> "FO_VIEW", links |-> <<3>>]>>],
                 [type |-> "FiftyComfy/Output/Set App View", title |-> "Set App View",
                  properties |-> EmptyRecord,
                  inputs |-> <<[name |-> "view", type |-> "FO_VIEW", link |-> Some(3)]>>,
                  outputs |-> <<>>]>>),
             LinksInOrder(<<<<1, 0, 2, 0>>, <<2, 0, 3, 0>>, <<3, 0, 4, 0>>>>))],
    [id |-> "evaluate-classifications", name |-> "Evaluate Classifications", category |-> "Evaluation",
     graph |->   \* buildEvaluateClassifications()
         makeGraph(
             NodesInOrder(<<
                 [type |-> "FiftyComfy/Source/Current Dataset", title |-> "Current Dataset",
                  properties |-> EmptyRecord,
                  inputs |-> <<>>,
                  outputs |-> <<[name |-> "view", type |-> "FO_VIEW", links |-> <<1>>]>>],
                 [type |-> "FiftyComfy/Evaluation/Evaluate Classifications", title |-> "Evaluate Classifications",
                  properties |-> [pred_field |-> "", gt_field |-> "", eval_key |-> "eval"],
                  inputs |-> <<[name |-> "view", type |-> "FO_VIEW", link |-> Some(1)]>>,
                  outputs |-> <<[name |-> "view", type |-> "FO_VIEW", links |-> <<2>>]>>],
                 [type |-> "FiftyComfy/Output/Set App View", title |-> "Set App View",
                  properties |-> EmptyRecord,
                  inputs |-> <<[name |-> "view", type |-> "FO_VIEW", link |-> Some(2)]>>,
                  outputs |-> <<>>]>>),
             LinksInOrder(<<<<1, 0, 2, 0>>, <<2, 0, 3, 0>>>>))]>>

\* LiteGraph's node.configure(info) on the node graph.configure created for
\* info.type: the id and the slots of the info, its properties written over
\* the ones the constructor set; a type that is not registered gives a bare
\* node that keeps the info
ConfiguredNode(info, regs, datasetInfoNow) ==
    IF Registered(regs, info.type) # 0
    THEN LET added == onNodeAdded(NewCanvasNode(NodeClasses[Registered(regs, info.type)]),
                                  datasetInfoNow).node
         IN [type |-> added.type, title |-> added.title, widgets |-> added.widgets,
             properties |-> info.properties @@ added.properties,
             id |-> info.id, inputs |-> info.inputs, outputs |-> info.outputs]
    ELSE [type |-> info.type, title |-> "", widgets |-> <<>>,
          properties |-> info.properties,
          id |-> info.id, inputs |-> info.inputs, outputs |-> info.outputs]

\* loadGraphData(data): _graph.configure(data); updateAllComboWidgets(_graph)
loadGraphData(data, regs, datasetInfoNow) ==
    updateAllComboWidgets(
        [i \in 1..Len(data.nodes) |-> ConfiguredNode(data.nodes[i], regs, datasetInfoNow)],
        datasetInfoNow)

\* a click on a template of the Templates panel -> handleLoadTemplate
HandleLoadBuiltin ==
    /\ RegFrame
    /\ registered
    /\ \E t \in 1..Len(BUILTIN_TEMPLATES) :
          /\ canvasNodes' = loadGraphData(BUILTIN_TEMPLATES[t].graph,
                                          registeredNodeTypes, datasetInfo)
          /\ Ran("loadGraphData", <<t>>)
    /\ UNCHANGED <<registered, registeredNodeTypes, datasetInfo, currentDatasetName,
                   hiddenNodeTypes>>

TemplatesNext ==
    \/ RegisterAllNodes
    \/ DatasetInfoArrives
    \/ CanvasAddNode
    \/ HandleLoadBuiltin

SpecTemplates == AllInit /\ [][TemplatesNext]_vars

(***************************************************************************)
(* FiftyComfyView.tsx: the mount effect as a whole, on the module-level    *)
(* singletons: registerAllNodes under _initialized, the graph and its      *)
(* hook under _graph, a new canvas, and fetchDatasetInfo with              *)
(* setupDatasetInfoListener under _datasetInfoListenerSet.  The graph of   *)
(* this part is canvasNodes.                                               *)
(***************************************************************************)
\* a setup that subscribes on every call: the variant that shows what C26
\* owes to `if (_datasetInfoListenerSet) return`
ListenersAfterEverySetup(isSet) ==
    [listeners EXCEPT !["dataset_info"] = Append(listeners["dataset_info"], closures + 1)]

\* setupDatasetInfoListener(): the listeners of the bus after it
ListenersAfterSetup(isSet) ==
    IF isSet THEN listeners
    ELSE [listeners EXCEPT !["dataset_info"] = Append(listeners["dataset_info"], closures + 1)]

\* registerAllNodes(): LiteGraph.registered_node_types after it
TypesAfterRegisterAll(done) ==
    IF done THEN registeredNodeTypes
    ELSE [i \in 1..Len(NodeClasses) |->
             [type |-> NodeClasses[i].type, title |-> NodeClasses[i].title,
              skip_list |-> Undefined]]

\* the component mounts: fresh useState values, then the mount effect
ViewMount ==
    /\ UNCHANGED <<storeVars, runVars, recoilVars, libraryVars>>
    /\ ~isMounted
    /\ mountId < MaxMounts
    /\ mountId' = mountId + 1
    /\ isMounted' = TRUE
    /\ running' = FALSE
    /\ status' = "Ready"
    /\ registered' = TRUE
    /\ registeredNodeTypes' = TypesAfterRegisterAll(registered)
    /\ graphCreated' = TRUE
    /\ datasetInfoListenerSet' = TRUE
    /\ listeners' = ListenersAfterSetup(datasetInfoListenerSet)
    /\ closures' = IF listeners' = listeners THEN closures ELSE closures + 1
    /\ Ran("mountEffect", <<~registered, ~graphCreated>>)
    /\ UNCHANGED <<panelNodes, executions, statusListeners, completionListeners,
                   lastEmit, datasetInfo, currentDatasetName, hiddenNodeTypes,
                   canvasNodes>>

MountsNext ==
    \/ ViewMount
    \/ PanelUnmount
    \/ DatasetInfoArrives
    \/ CanvasAddNode
    \/ HandleLoadBuiltin

SpecMounts == AllInit /\ [][MountsNext]_vars

(***************************************************************************)
(* Properties of the editing session.                                      *)
(***************************************************************************)
LinkTouches(e, id) == e.source = id \/ e.target = id

NoDanglingLinks ==
    \A i \in 1..Len(edges) : HasNode(edges[i].source) /\ HasNode(edges[i].target)

\* C1: after removeSelectedNode on node n no link has n as its source or its
\* target, and in every state reached by adding nodes, connecting nodes on
\* the canvas, editing parameters and removing nodes every link's source
\* and target are ids of nodes of the graph.
C1_RemoveNodeLeavesNoLink ==
    /\ NoDanglingLinks
    /\ lastOp[1] = "removeSelectedNode" =>
          /\ ~HasNode(lastOp[2][1])
          /\ \A i \in 1..Len(edges) : ~LinkTouches(edges[i], lastOp[2][1])

\* a node was removed together with a link of its own, and a link of the
\* node that stays is still there
C1_Witness ==
    /\ lastOp[1] = "removeSelectedNode"
    /\ lastOp[2][2] >= 1
    /\ Len(nodes) >= 1
    /\ Len(edges) >= 1

\* the links that arrive at node id (a node has one target handle)
IncomingLinks(id) == SelectSeq(edges, LAMBDA e : e.target = id)

\* C2: a connect onto an input port that already has a link leaves exactly
\* one link on that port; no input port ever has two incoming links.
C2_OneLinkPerInput ==
    \A i \in 1..Len(nodes) : Len(IncomingLinks(nodes[i].id)) <= 1

SameIds(a, b) == {a[i].id : i \in 1..Len(a)} = {b[i].id : i \in 1..Len(b)}

LinkEnds(eds) ==
    {<<eds[i].id, eds[i].source, eds[i].target, eds[i].sourceHandle, eds[i].targetHandle>> :
        i \in 1..Len(eds)}

NodeParams(nds) == {<<nds[i].id, nds[i].params>> : i \in 1..Len(nds)}

\* the catalog has an entry for every node type of the graph
CatalogCovers(cat) ==
    \A i \in 1..Len(nodes) : getNodeTypeDef(cat, nodes[i].nodeType) # Undefined

\* C3: loadGraph(serializeGraph(g)) has the node ids, the link ids with their
\* endpoints and the parameter values of g, under every catalog that has
\* the node types of g, whatever catalog g was built under.
C3_RoundTrip ==
    \A cat \in Catalogs, t \in Times :
       CatalogCovers(cat) =>
          LET snapshot == serializeGraph(t)
              loaded == LoadedNodes(snapshot, cat)
              links == LoadedEdges(snapshot)
          IN /\ SameIds(loaded, nodes)
             /\ Len(loaded) = Len(nodes)
             /\ LinkEnds(links) = LinkEnds(edges)
             /\ Len(links) = Len(edges)
             /\ NodeParams(loaded) = NodeParams(nodes)

\* a graph of two nodes and a link, with an edited parameter, built under
\* the default catalog and loaded back under the backend's
C3_Witness ==
    /\ lastOp[1] = "loadGraph"
    /\ catalog # DEFAULT_NODE_CATALOG
    /\ Len(nodes) = 2
    /\ Len(edges) >= 1
    /\ \E i \in 1..Len(nodes) :
          /\ "count" \in DOMAIN nodes[i].params
          /\ nodes[i].params.count = 50
          /\ nodes[i].label = "Limit (backend)"

(***************************************************************************)
(* Properties of a run of the React Flow panel.                            *)
(***************************************************************************)
\* the node shows what the last node_status addressed to it said, and is
\* idle with no error when none was addressed to it
ShowsLastEvent(n) ==
    IF n.id \in DOMAIN delivered
    THEN n.status = delivered[n.id].status /\ n.error = delivered[n.id].error
    ELSE n.status = "idle" /\ n.error = Undefined

\* a node_status step changes no node but the one it is addressed to
OnlyAddresseeChanges ==
    lastOp'[1] = "node_status_update" =>
       /\ Len(nodes') = Len(nodes)
       /\ \A i \in 1..Len(nodes) :
             nodes[i].id # lastOp'[2][1] => nodes'[i] = nodes[i]

\* C5: when execution_complete has been handled the run-in-flight flag is
\* false and every node shows the status and error of the last node_status
\* event addressed to it, a node no event was addressed to being idle; and
\* handling a node_status event changes the state of no other node.
C5_LastEventWins ==
    /\ [](lastOp[1] = "execution_complete" =>
             /\ ~isExecuting
             /\ \A i \in 1..Len(nodes) : ShowsLastEvent(nodes[i]))
    /\ [][OnlyAddresseeChanges]_vars

\* a run has completed in which one node went from running to error "boom"
\* and its sibling was never reported
C5_Witness ==
    /\ lastOp[1] = "execution_complete"
    /\ ~isExecuting
    /\ emitted = 2
    /\ \E i, j \in 1..Len(nodes) :
          /\ nodes[i].status = "error"
          /\ nodes[i].error = Some("boom")
          /\ nodes[i].id \in DOMAIN delivered
          /\ nodes[j].status = "idle"
          /\ nodes[j].id \notin DOMAIN delivered

(***************************************************************************)
(* Properties of the Recoil panel and of the panel on the singleton graph. *)
(***************************************************************************)
\* C4: a node_status event for a node id that is not on the graph leaves no
\* status entry for that id (and changes no node).
C4_AbsentNodeIsNoOp ==
    (lastOp[1] = "node_status_update" /\ ~lastOp[2][2]) =>
        lastOp[2][1] \notin DOMAIN nodeStatuses

\* C6: at most one run is in flight at any time.
C6_OneRunInFlight == Len(executions) <= 1

\* C7: when handleQueue has handed the graph to the executor no node has a
\* status entry or a status colour left over from an earlier run.
C7_ResetAtHandOff ==
    lastOp[1] = "handleQueue" =>
        /\ nodeStatuses = EmptyRecord
        /\ \A i \in 1..Len(lgNodes) : lgNodes[i].boxcolor = Null

(***************************************************************************)
(* Properties of the status buses.                                         *)
(***************************************************************************)
TimesCalled(fn) == Cardinality({i \in 1..Len(lastEmit.called) : lastEmit.called[i] = fn})

\* C8: an emit calls every listener subscribed to the event exactly once,
\* within the emit, and calls nothing else; a listener that throws stops
\* none of the listeners after it and its exception does not reach the
\* emitter (it is logged).
C8_EmitReachesEveryListener ==
    lastOp[1] = "emit" =>
       /\ \A fn \in 1..closures :
             TimesCalled(fn) =
                IF \E i \in 1..Len(lastEmit.subscribed) : lastEmit.subscribed[i] = fn
                THEN 1 ELSE 0
       /\ ~lastEmit.propagated

\* an emit to three listeners of which the first threw
C8_Witness ==
    /\ lastOp[1] = "emit"
    /\ Len(lastEmit.subscribed) = 3
    /\ lastEmit.logged = <<lastEmit.subscribed[1]>>
    /\ Len(lastEmit.called) = 3


(***************************************************************************)
(* Properties of the node registry: visibility, search and dropdowns.      *)
(***************************************************************************)

\* the node types whose visibility rule asks for label fields
LabelFieldTypes ==
    {NODE_VISIBILITY_RULES[j].type : j \in
        {k \in 1..Len(NODE_VISIBILITY_RULES) :
            NODE_VISIBILITY_RULES[k].collection = "label_fields"}}

\* the types a search returned
Returned(results) == {results[i] : i \in 1..Len(results)}

\* C9: once setDatasetInfo has run, a search returns none of the eight node
\* types whose rule asks for label fields while label_fields is empty,
\* whatever the query; and while label_fields is not empty the search for
\* the empty query returns every one of them.
C9_LabelTypesFollowLabelFields ==
    (lastOp[1] = "onSearchBox" /\ currentDatasetName # "") =>
        LET query == lastOp[2][1]
            returned == Returned(lastOp[2][2])
        IN /\ Cardinality(LabelFieldTypes) = 8
           /\ \A ty \in LabelFieldTypes : Registered(registeredNodeTypes, ty) # 0
           /\ datasetInfo.collections["label_fields"] = <<>>
                 => returned \cap LabelFieldTypes = {}
           /\ (datasetInfo.collections["label_fields"] # <<>> /\ query = "")
                 => LabelFieldTypes \subseteq returned

\* a search for the empty query, after a dataset info without label fields
\* arrived, that returned something
C9_Witness ==
    /\ lastOp[1] = "onSearchBox"
    /\ currentDatasetName # ""
    /\ datasetInfo.collections["label_fields"] = <<>>
    /\ lastOp[2][1] = ""
    /\ Len(lastOp[2][2]) > 0

\* the dropdowns of a shown that a population rule covers
CoveredCombos(shown) ==
    {k \in 1..Len(shown.widgets) :
        /\ shown.widgets[k].type = "combo"
        /\ PopulationRule(shown.widgets[k].name, shown.type) # NoRule}

\* C10: every dropdown of a node on the canvas that a population rule covers
\* offers something: the rule's collection of the dataset info when that
\* collection is not empty, and otherwise the rule's placeholder alone; this
\* holds under the initial, all-empty dataset info too.
C10_CoveredComboNeverEmpty ==
    \A n \in 1..Len(canvasNodes) :
        \A k \in CoveredCombos(canvasNodes[n]) :
            LET w == canvasNodes[n].widgets[k]
                rule == PopulationRule(w.name, canvasNodes[n].type)
                collection == datasetInfo.collections[rule.collection]
            IN /\ Len(w.values) > 0
               /\ collection # <<>> => w.values = collection
               /\ collection = <<>> => w.values = <<rule.placeholder>>

\* a node added under the initial dataset info, whose covered dropdown had
\* nothing to draw from
C10_Witness ==
    /\ lastOp[1] = "onNodeAdded"
    /\ datasetInfo = EmptyDatasetInfo
    /\ \E n \in 1..Len(canvasNodes) : CoveredCombos(canvasNodes[n]) # {}


\* the parameters of a shown: its properties but the hint the populator adds
Parameters(shown) == DOMAIN shown.properties \ {"_available_classes"}

\* C11: a dataset info that arrives and repopulates the dropdowns of the
\* nodes on the canvas leaves the stored value of every parameter of every
\* node as it was, also where the value is not among the new candidates.
C11_PopulatorKeepsSelections ==
    [][(lastOp'[1] = "dataset_info" /\ Len(canvasNodes') = Len(canvasNodes)) =>
          \A n \in 1..Len(canvasNodes) :
              /\ Parameters(canvasNodes'[n]) = Parameters(canvasNodes[n])
              /\ \A key \in Parameters(canvasNodes[n]) :
                    canvasNodes'[n].properties[key] = canvasNodes[n].properties[key]]_vars

\* a dataset info arrived and a node keeps a selection that the new value
\* list of its dropdown does not hold
C11_Witness ==
    /\ lastOp[1] = "dataset_info"
    /\ \E n \in 1..Len(canvasNodes) :
          \E k \in CoveredCombos(canvasNodes[n]) :
             LET w == canvasNodes[n].widgets[k] IN
             /\ canvasNodes[n].properties[w.name] # ""
             /\ \A i \in 1..Len(w.values) : w.values[i] # canvasNodes[n].properties[w.name]


(***************************************************************************)
(* Properties of addNode and of the parameters of the nodes it builds.     *)
(***************************************************************************)

\* C12: addNode called with a type that the active catalog does not hold
\* signals UnknownNodeType to its caller and leaves the nodes, the links
\* and the selection as they were.
C12_UnknownTypeIsAnError ==
    [][(lastOp'[1] = "addNode" /\ ~lastOp'[2][1]) =>
          /\ lastOp'[2][2] = Some("UnknownNodeType")
          /\ UNCHANGED <<nodes, edges, selectedNodeId>>]_vars


\* the parameters of a node that hold an array
ListParams(n) ==
    {k \in DOMAIN n.params \cap DOMAIN n.paramsSchema : n.paramsSchema[k].type = "list"}

\* the node addNode has just built has the keys of its type's schema, with
\* the default values, each array being an object of its own: not the
\* catalog's, not another node's
OwnCopyOfDefaults ==
    (lastOp[1] = "addNode" /\ lastOp[2][1]) =>
        LET n == nodes[Len(nodes)]
            schema == getNodeTypeDef(activeCatalog, n.nodeType)[1].paramsSchema
        IN /\ DOMAIN n.params = DOMAIN schema
           /\ \A k \in DOMAIN schema :
                 IF schema[k].type = "list"
                 THEN /\ n.params[k].items = schema[k].default.items
                      /\ n.params[k].ref # schema[k].default.ref
                      /\ \A j \in 1..(Len(nodes) - 1) :
                            \A kj \in ListParams(nodes[j]) :
                               nodes[j].params[kj].ref # n.params[k].ref
                 ELSE n.params[k] = schema[k].default

\* an edit of the selected node's parameters changes no other node and
\* not the catalog
EditTouchesOneNode ==
    lastOp'[1] = "updateNodeParams" =>
        /\ catalog' = catalog
        /\ Len(nodes') = Len(nodes)
        /\ \A j \in 1..Len(nodes) :
              nodes[j].id # selectedNodeId => nodes'[j] = nodes[j]

\* C13: a node built by addNode has exactly the parameter keys of its
\* type's schema, each with its own copy of the default, and editing the
\* parameters of one node changes neither another node nor the catalog.
C13_DefaultsAreCopied == [](OwnCopyOfDefaults) /\ [][EditTouchesOneNode]_vars


(***************************************************************************)
(* Properties of loading a snapshot.                                       *)
(***************************************************************************)

\* the node carries what the catalog entry of its type says
CarriesCatalogEntry(n, typeDef) ==
    /\ n.label = typeDef.label
    /\ n.color = typeDef.color
    /\ n.type = typeDef.category
    /\ n.paramsSchema = typeDef.paramsSchema
    /\ n.inputs = typeDef.inputs
    /\ n.outputs = typeDef.outputs

\* C14: after loadGraph(snapshot) the nodes and the links of the model are
\* those of the snapshot, one for one and nothing else, and every node whose
\* type the active catalog has carries the label, the colour, the parameter
\* schema and the ports of that catalog entry.
C14_LoadReplacesAndResolves ==
    lastOp[1] = "store.loadGraph" =>
        LET graph == lastOp[2][1] IN
        /\ graphId = graph.id
        /\ Len(nodes) = Len(graph.nodes)
        /\ \A i \in 1..Len(nodes) :
              /\ nodes[i].id = graph.nodes[i].id
              /\ nodes[i].nodeType = graph.nodes[i].type
              /\ nodes[i].position = graph.nodes[i].position
              /\ nodes[i].params = graph.nodes[i].params
              /\ getNodeTypeDef(activeCatalog, nodes[i].nodeType) # Undefined
                    => CarriesCatalogEntry(nodes[i],
                          getNodeTypeDef(activeCatalog, nodes[i].nodeType)[1])
        /\ Len(edges) = Len(graph.edges)
        /\ LinkEnds(edges) = LinkEnds(graph.edges)

\* the pipeline snapshot loaded over a graph that had nodes of its own,
\* under the backend's catalog
C14_Witness ==
    /\ lastOp[1] = "store.loadGraph"
    /\ lastOp[2][1] = PipelineSnapshot
    /\ nodeIdCounter > 0
    /\ catalog = BackendCatalog
    /\ nodes[2].label = "Limit (backend)"

\* C15: loadGraph with a snapshot one of whose links names a node that is
\* not among the snapshot's nodes leaves the model as it was, and no link
\* of the model ever refers to a node that the model does not have.
C15_DanglingLoadRejected ==
    /\ [](NoDanglingLinks)
    /\ [][(lastOp'[1] = "store.loadGraph" /\ lastOp'[2][1] = DanglingSnapshot)
             => UNCHANGED <<nodes, edges, graphId, selectedNodeId>>]_vars


(***************************************************************************)
(* Properties of a validation that fails.                                  *)
(***************************************************************************)

\* the errors of a validation answer that name the node
ErrorsNaming(errors, id) ==
    {k \in 1..Len(errors) : errors[k].node_id = Some(id)}

\* after a validation that failed, the run is over and nothing is left to
\* send to the executor
RunStopped ==
    /\ ~isExecuting
    /\ \A r \in 1..Len(requests) : requests[r].kind # "execute"

\* C16 as the spec has it: when validation fails, every reported
\* {node_id, message} whose node exists ends with status error and that
\* very message, no execute_graph request is sent and the run-in-flight
\* flag is cleared.
C16_EveryMessageShown ==
    (lastOp[1] = "validateGraph" /\ ~lastOp[2][1].valid) =>
        /\ RunStopped
        /\ \A i \in 1..Len(nodes) :
              \A k \in ErrorsNaming(lastOp[2][1].errors, nodes[i].id) :
                 /\ nodes[i].status = "error"
                 /\ nodes[i].error = Some(lastOp[2][1].errors[k].message)

\* C16, amended: when validation fails, every node that a reported error
\* names and that exists ends with status error and the message of the last
\* error that names it; no execute_graph request is sent and the
\* run-in-flight flag is cleared.
C16_LastMessageShown ==
    (lastOp[1] = "validateGraph" /\ ~lastOp[2][1].valid) =>
        /\ RunStopped
        /\ \A i \in 1..Len(nodes) :
              LET named == ErrorsNaming(lastOp[2][1].errors, nodes[i].id) IN
              named # {} =>
                 /\ nodes[i].status = "error"
                 /\ nodes[i].error =
                       Some(lastOp[2][1].errors[CHOOSE k \in named :
                                                   \A j \in named : j <= k].message)

\* a validation failed with two errors that name the same node of the
\* graph, next to a node that no error names
C16_Witness ==
    /\ lastOp[1] = "validateGraph"
    /\ ~lastOp[2][1].valid
    /\ Len(nodes) = 2
    /\ \E i \in 1..Len(nodes) :
          /\ ErrorsNaming(lastOp[2][1].errors, nodes[i].id) = {1, 2}
          /\ nodes[i].error = Some("no input")

(***************************************************************************)
(* The graph library                                                       *)
(***************************************************************************)
\* the step is a handler going on after the await of a call of that kind
Settles(kind) == lastOp'[1] = "settled" /\ lastOp'[2][1] = kind

\* C17: when a save, list, load or delete request fails (it rejects, or it
\* brings back nothing), the nodes of the graph, their parameter values and
\* the links are after the call exactly what they were before it.
C17_FailedCallLeavesGraph ==
    [][(lastOp'[1] = "settled" /\ lastOp'[2][3]) =>
          /\ nodes' = nodes
          /\ edges' = edges]_vars

\* a load that brought back no graph has settled on a canvas that holds a
\* loaded pipeline whose limit was edited since
C17_Witness ==
    /\ lastOp[1] = "settled"
    /\ lastOp[2][1] = "load_graph"
    /\ lastOp[2][3]
    /\ Len(nodes) = 2
    /\ Len(edges) = 1
    /\ \E i \in 1..Len(nodes) :
          /\ "count" \in DOMAIN nodes[i].params
          /\ nodes[i].params.count = 50

\* C18: a delete that the store answers with { deleted: false }, the id
\* not being in the store, leaves the list of saved graphs as it was: the
\* entry leaves the list only on a confirmed deletion.
C18_UnconfirmedDeleteKeepsEntry ==
    [][(Settles("delete_graph")
          /\ lastOp'[2][4] = [rejected |-> FALSE,
                               result |-> Some([deleted |-> FALSE])]) =>
          savedGraphs' = savedGraphs]_vars

(***************************************************************************)
(* The workflows in localStorage                                           *)
(***************************************************************************)
\* C19: a save under a name that is already in the store leaves one entry
\* more than before, and the graph saved first under the name is still an
\* entry of the store: the second save does not replace it.
C19_SecondSaveAddsEntry ==
    [][(lastOp'[1] = "handleSave" /\ lastOp'[2][2]
          /\ lastOp'[2][1] \in DOMAIN workflows) =>
          /\ Cardinality(DOMAIN workflows') = Cardinality(DOMAIN workflows) + 1
          /\ \E key \in DOMAIN workflows' :
                workflows'[key] = workflows[lastOp'[2][1]]]_vars

(***************************************************************************)
(* The sources of the dropdowns                                            *)
(***************************************************************************)
\* the node types whose "field" dropdown has a rule of its own besides the
\* ones C20 lists
OtherFieldRules == {"Compute BBox Area", "Filter Keypoints"}

\* the collection C20 names for the dropdown `name` of a node with that
\* title; "" where it names none
ListedSource(title, name) ==
    IF name = "field" /\ title \in {"Filter Labels", "Match Labels", "Map Labels"}
    THEN "label_fields"
    ELSE IF name = "field" /\ title = "To Patches" THEN "patches_fields"
    ELSE IF name = "view_name" /\ title = "Load Saved View" THEN "saved_views"
    ELSE IF name = "eval_key" /\ title = "Manage Evaluation" THEN "evaluations"
    ELSE IF name = "brain_key" /\ title = "Manage Brain Run" THEN "brain_runs"
    ELSE IF name = "field" /\ title \notin OtherFieldRules THEN "fields"
    ELSE ""

\* the dropdowns C20 names on a node type by its title
ListedDropdown(title) ==
    IF title \in {"Filter Labels", "Match Labels", "Map Labels", "To Patches", "Sort By"}
    THEN "field"
    ELSE IF title = "Load Saved View" THEN "view_name"
    ELSE IF title = "Manage Evaluation" THEN "eval_key"
    ELSE IF title = "Manage Brain Run" THEN "brain_key"
    ELSE ""

C21_HiddenFollowsDatasetInfo ==
    \A k \in 1..Len(NODE_VISIBILITY_RULES) :
        Registered(registeredNodeTypes, NODE_VISIBILITY_RULES[k].type) # 0 =>
           (NODE_VISIBILITY_RULES[k].type \in hiddenNodeTypes
               <=> ShouldHide(NODE_VISIBILITY_RULES[k], datasetInfo))

(***************************************************************************)
(* The templates and the populator                                         *)
(***************************************************************************)
\* every dropdown of the node that a population rule covers lists the
\* rule's collection of the cached dataset info, or the placeholder alone
\* when that collection is empty
PopulatedFromCache(shown) ==
    \A k \in CoveredCombos(shown) :
        LET rule == PopulationRule(shown.widgets[k].name, shown.type)
            source == datasetInfo.collections[rule.collection]
        IN /\ shown.widgets[k].values # <<>>
           /\ shown.widgets[k].values =
                 IF source = <<>> THEN <<rule.placeholder>> ELSE source

\* C22: after every add of a node, load of a template and dataset_info
\* event, in any order, every node on the canvas has its rule-covered
\* dropdowns populated from the cached dataset info; and the node a
\* callback installed before the hook would be handed is populated already.
C22_NoUnpopulatedNode ==
    /\ \A n \in 1..Len(canvasNodes) : PopulatedFromCache(canvasNodes[n])
    /\ lastOp[1] = "onNodeAdded" => PopulatedFromCache(lastOp[2][1])

\* a node with a rule-covered dropdown was added after a dataset info with
\* label fields had arrived
C22_Witness ==
    /\ lastOp[1] = "onNodeAdded"
    /\ datasetInfo.collections["label_fields"] # <<>>
    /\ CoveredCombos(lastOp[2][1]) # {}
    /\ lastOp[2][1].title = "Filter Labels"

\* the ids of the nodes and of the links of a serialized graph
NodeIdsOf(graph) == {graph.nodes[i].id : i \in 1..Len(graph.nodes)}
LinkIdsOf(graph) == {graph.links[i][1] : i \in 1..Len(graph.links)}

\* the serialized graph is well formed: the last ids are the largest ids,
\* ids are unique, every link a slot names is in the links array with that
\* node and slot as its end, and the ends of every link are nodes
WellFormed(graph) ==
    /\ \A id \in NodeIdsOf(graph) : id <= graph.last_node_id
    /\ \A id \in LinkIdsOf(graph) : id <= graph.last_link_id
    /\ graph.nodes # <<>> => graph.last_node_id \in NodeIdsOf(graph)
    /\ graph.links # <<>> => graph.last_link_id \in LinkIdsOf(graph)
    /\ Cardinality(NodeIdsOf(graph)) = Len(graph.nodes)
    /\ Cardinality(LinkIdsOf(graph)) = Len(graph.links)
    /\ \A i \in 1..Len(graph.nodes) :
          /\ \A slot \in 1..Len(graph.nodes[i].inputs) :
                graph.nodes[i].inputs[slot].link # Null =>
                   \E l \in 1..Len(graph.links) :
                      /\ graph.links[l][1] = graph.nodes[i].inputs[slot].link[1]
                      /\ graph.links[l][4] = graph.nodes[i].id
                      /\ graph.links[l][5] = slot - 1
          /\ \A slot \in 1..Len(graph.nodes[i].outputs) :
                \A o \in 1..Len(graph.nodes[i].outputs[slot].links) :
                   \E l \in 1..Len(graph.links) :
                      /\ graph.links[l][1] = graph.nodes[i].outputs[slot].links[o]
                      /\ graph.links[l][2] = graph.nodes[i].id
                      /\ graph.links[l][3] = slot - 1
    /\ \A l \in 1..Len(graph.links) :
          /\ graph.links[l][2] \in NodeIdsOf(graph)
          /\ graph.links[l][4] \in NodeIdsOf(graph)

\* C27: every built-in template, as the panel hands it to the load, is a
\* well-formed serialized graph:
\* last_node_id and last_link_id are the largest node id and link id, ids
\* are unique, every link id a node's inputs[].link or outputs[].links names
\* is in the links array with that node and slot as the matching end, and
\* the origin and the target of every link are nodes of the graph.
C27_TemplatesWellFormed ==
    lastOp[1] = "loadGraphData" => WellFormed(BUILTIN_TEMPLATES[lastOp[2][1]].graph)

\* a template of five nodes and four links has been loaded onto the canvas
C27_Witness ==
    /\ lastOp[1] = "loadGraphData"
    /\ Len(BUILTIN_TEMPLATES[lastOp[2][1]].graph.links) = 4
    /\ BUILTIN_TEMPLATES[lastOp[2][1]].graph.last_node_id = 5
    /\ Len(canvasNodes) = 5

\* C28: after a built-in template is loaded, every node on the canvas is of
\* a registered type and has no parameter but the ones the constructor of
\* its type declares.
C28_TemplateKnowsItsParameters ==
    lastOp[1] = "loadGraphData" =>
       \A n \in 1..Len(canvasNodes) :
          LET class == Registered(registeredNodeTypes, canvasNodes[n].type) IN
          /\ class # 0
          /\ Parameters(canvasNodes[n]) \subseteq DOMAIN NodeClasses[class].properties

\* what a node of the canvas is, its dropdown candidates aside: its type,
\* its parameters and, on a loaded node, its id and the links of its slots
Substance(shown) ==
    [type |-> shown.type,
     properties |-> [key \in Parameters(shown) |-> shown.properties[key]],
     slots |-> IF "id" \in DOMAIN shown
               THEN <<shown.id, shown.inputs, shown.outputs>>
               ELSE <<>>]

MountStep == lastOp'[1] \in {"mountEffect", "unmount"}

\* a mount or an unmount leaves the graph and its nodes with their links as
\* they are, and after the first mount no mount registers the node types
\* or creates the graph again
MountKeepsSingletons ==
    MountStep =>
       /\ canvasNodes' = canvasNodes
       /\ graphCreated => graphCreated'
       /\ registered =>
             /\ registeredNodeTypes' = registeredNodeTypes
             /\ lastOp'[1] = "mountEffect" => lastOp'[2] = <<FALSE, FALSE>>

\* C26: across unmounts and remounts the module-level graph with its nodes
\* and links is kept, the node types are registered by the first mount
\* only, and from the first mount on the bus has exactly one dataset_info
\* listener, however many mounts there were.
C26_RemountKeepsSingletons ==
    /\ [](registered => Len(listeners["dataset_info"]) = 1)
    /\ [][MountKeepsSingletons]_vars

\* the third mount of the panel, over a graph loaded from a template
C26_Witness ==
    /\ lastOp[1] = "mountEffect"
    /\ mountId = 3
    /\ Len(canvasNodes) > 2
    /\ Len(listeners["dataset_info"]) = 1


\* the steps after which handleRun or the execution_complete listener has
\* called setIsExecuting(false): the catch, a validation that reports
\* errors, the delivery of execution_complete
RunIsOver ==
    \/ lastOp'[1] = "catch"
    \/ lastOp'[1] = "execution_complete"
    \/ (lastOp'[1] = "validateGraph" /\ ~lastOp'[2][1].valid)

\* C23: under an executor that answers (it rejects the request, reports
\* validation errors, or delivers execution_complete) every started run
\* eventually leaves the in-flight state: isExecuting leads to ~isExecuting,
\* and each of the three endings, the rejected request among them, leaves
\* the flag false, so that Run is enabled again.
C23_RunLeavesInFlight ==
    /\ isExecuting ~> ~isExecuting
    /\ [][RunIsOver => ~isExecuting']_vars

\* a second run was started after the first one was over
C23_Witness ==
    /\ lastOp[1] = "handleRun"
    /\ runCount = 2
    /\ isExecuting


\* the node of the canvas with this id
NodeOf(nds, id) == nds[CHOOSE i \in 1..Len(nds) : nds[i].id = id]

ResetKeepingResult(before, after) ==
    /\ after.status = "idle"
    /\ after.progress = Undefined
    /\ after.statusMessage = Undefined
    /\ after.error = Undefined
    /\ after.durationMs = Undefined
    /\ after.result = before.result

\* C29: Run resets every node to idle and clears its progress, message,
\* error and duration but keeps its result, and a status event without a
\* result keeps the result the node shows: the result of an earlier run
\* stays until a new one arrives for the node.
C29_ResultSurvivesReset ==
    /\ [][lastOp'[1] = "handleRun" =>
            /\ Len(nodes') = Len(nodes)
            /\ \A i \in 1..Len(nodes) : ResetKeepingResult(nodes[i], nodes'[i])]_vars
    /\ [][(lastOp'[1] = "node_status_update" /\ lastOp'[2][2]
              /\ Head(bridge).params.result = Undefined) =>
            NodeOf(nodes', lastOp'[2][1]).result = NodeOf(nodes, lastOp'[2][1]).result]_vars

\* in the second run a node is running and still shows the result of the
\* first run
C29_Witness ==
    /\ runCount = 2
    /\ isExecuting
    /\ lastOp[1] = "node_status_update"
    /\ lastOp[2][2]
    /\ NodeOf(nodes, lastOp[2][1]).status = "running"
    /\ NodeOf(nodes, lastOp[2][1]).result = Some("5 samples")


\* C30: Save clicked twice in a row, with nothing in between, sends the
\* same graph id both times: the second save addresses the entry of the
\* first.
C30_SavedTwiceSameId ==
    [][(lastOp[1] = "handleSave" /\ lastOp'[1] = "handleSave") =>
          libraryCalls'[Len(libraryCalls')].arg.id
              = libraryCalls[Len(libraryCalls)].arg.id]_vars

====
